---- MODULE Spec2Model ----
(***************************************************************************)
(* The fact store of neo (src/neo/memory): the in-memory fact list, the    *)
(* supersession policy of add_fact, scored retrieval, context assembly,    *)
(* constraint ingestion and the per-scope partition files.                 *)
(*                                                                         *)
(* Numbers.  Confidence is kept in hundredths (0.5 is 50).  A cosine       *)
(* similarity is kept in ten-thousandths (0.85 is 8500).  Time is counted  *)
(* in recency half-lives of 30 days, so recency = 0.5 ^ age is 1 / 2^age.  *)
(* Fact ids (uuid4 in the code) are drawn from a counter: fresh, unique.   *)
(***************************************************************************)
EXTENDS Integers, Sequences, FiniteSets, TLC

VARIABLES
    facts,       \* FactStore._facts: the in-memory list of Fact
    files,       \* the partition files under FACTS_DIR, by partition
    docs,        \* the constraint documentation files, by CONSTRAINT_FILES index
    checksums,   \* the checksum side file (CHECKSUM_FILE), by path
    now,         \* time.time(), in half-lives
    next_id,     \* the next fresh fact id
    org_id,      \* FactStore.org_id
    project_id,  \* FactStore.project_id
    last,        \* the last call: its name, arguments, prior facts and result
    embedding_cache,  \* FactStore._embedding_cache, least recently used first
    other,       \* a second FactStore of the same home: its _facts and cache
    updater      \* update_checker: the installed package, its files, its last call

vars == <<facts, files, docs, checksums, now, next_id, org_id, project_id, last,
          embedding_cache, other, updater>>

----------------------------------------------------------------------------
(* Bounds of the model *)

MaxFacts == 3
MaxChain == 4
MaxTime == 1
MaxAccess == 2
MaxK == 2
MaxCache == 2
MaxVersion == 2
MaxRuns == 2

----------------------------------------------------------------------------
(* models.py: the data model *)

FactKind ==
    {"constraint", "architecture", "pattern", "review", "decision",
     "known_unknown", "failure"}

FactScope == {"global", "org", "project", "session"}

NoId == 0

NoEmbedding == <<>>

NewFact(id, body, kind, scope, org, proj, file, confidence, embedding, deps, t) ==
    [id |-> id,
     body |-> body,
     kind |-> kind,
     scope |-> scope,
     org_id |-> org,
     project_id |-> proj,
     is_valid |-> TRUE,
     superseded_by |-> NoId,
     supersedes |-> NoId,
     depends_on |-> deps,
     needs_review |-> FALSE,
     metadata |-> [last_accessed |-> t,
                   access_count |-> 0,
                   source_file |-> file,
                   confidence |-> confidence],
     embedding |-> embedding]

(* Fact.to_dict: every field under its key; the embedding key is left out
   when there is no embedding. *)
ToDict(f) ==
    LET data == [id |-> f.id,
                 body |-> f.body,
                 kind |-> f.kind,
                 scope |-> f.scope,
                 org_id |-> f.org_id,
                 project_id |-> f.project_id,
                 is_valid |-> f.is_valid,
                 superseded_by |-> f.superseded_by,
                 supersedes |-> f.supersedes,
                 depends_on |-> f.depends_on,
                 needs_review |-> f.needs_review,
                 metadata |-> f.metadata]
    IN  IF f.embedding # NoEmbedding
        THEN data @@ [embedding |-> f.embedding]
        ELSE data

(* Fact.from_dict: data.get(key, default) for every key. *)
FromDict(d) ==
    [id |-> d.id,
     body |-> IF "body" \in DOMAIN d THEN d.body ELSE "",
     kind |-> IF "kind" \in DOMAIN d THEN d.kind ELSE "pattern",
     scope |-> IF "scope" \in DOMAIN d THEN d.scope ELSE "project",
     org_id |-> IF "org_id" \in DOMAIN d THEN d.org_id ELSE "",
     project_id |-> IF "project_id" \in DOMAIN d THEN d.project_id ELSE "",
     is_valid |-> IF "is_valid" \in DOMAIN d THEN d.is_valid ELSE TRUE,
     superseded_by |->
         IF "superseded_by" \in DOMAIN d THEN d.superseded_by ELSE NoId,
     supersedes |-> IF "supersedes" \in DOMAIN d THEN d.supersedes ELSE NoId,
     depends_on |-> IF "depends_on" \in DOMAIN d THEN d.depends_on ELSE {},
     needs_review |->
         IF "needs_review" \in DOMAIN d THEN d.needs_review ELSE FALSE,
     metadata |-> d.metadata,
     embedding |->
         IF "embedding" \in DOMAIN d THEN d.embedding ELSE NoEmbedding]

----------------------------------------------------------------------------
(* Helpers on sequences and numbers *)

Min(a, b) == IF a <= b THEN a ELSE b

Ids(fs) == {fs[i].id : i \in DOMAIN fs}

Range(s) == {s[i] : i \in DOMAIN s}

(* The sum of the access counts of fs *)
RECURSIVE AccessTotal(_)
AccessTotal(fs) ==
    IF fs = <<>> THEN 0
    ELSE Head(fs).metadata.access_count + AccessTotal(Tail(fs))

RECURSIVE Pow2(_)
Pow2(n) == IF n <= 0 THEN 1 ELSE 2 * Pow2(n - 1)

RECURSIVE Dot(_, _, _)
Dot(a, b, i) == IF i > Len(a) THEN 0 ELSE a[i] * b[i] + Dot(a, b, i + 1)

(* The whole part of the square root of n, by Newton's iteration from x *)
RECURSIVE SqrtFrom(_, _)
SqrtFrom(n, x) ==
    IF x * x <= n THEN x ELSE SqrtFrom(n, (x + n \div x) \div 2)

(* np.linalg.norm: the square root of the sum of squares (exact on the
   embeddings of the model, whose norms are whole numbers). *)
Norm(a) == LET n2 == Dot(a, a, 1) IN SqrtFrom(n2, n2)

----------------------------------------------------------------------------
(* store.py: embeddings and similarity *)

SUPERSESSION_THRESHOLD == 8500

(* FactStore._cosine_similarity, in ten-thousandths *)
CosineSimilarity(a, b) ==
    LET norm_a == Norm(a)
        norm_b == Norm(b)
    IN  IF norm_a = 0 \/ norm_b = 0
        THEN 0
        ELSE (Dot(a, b, 1) * 10000) \div (norm_a * norm_b)

----------------------------------------------------------------------------
(* store.py: supersession *)

(* The candidate loop with the kind comparison left out *)
RECURSIVE FindCandidateAnyKind(_, _, _, _, _)
FindCandidateAnyKind(fs, new_fact, i, best_match, best_sim) ==
    IF i > Len(fs) THEN best_match
    ELSE IF ~fs[i].is_valid \/ fs[i].scope # new_fact.scope
            \/ fs[i].embedding = NoEmbedding
        THEN FindCandidateAnyKind(fs, new_fact, i + 1, best_match, best_sim)
    ELSE LET sim == CosineSimilarity(new_fact.embedding, fs[i].embedding)
         IN  IF sim > SUPERSESSION_THRESHOLD /\ sim > best_sim
             THEN FindCandidateAnyKind(fs, new_fact, i + 1, i, sim)
             ELSE FindCandidateAnyKind(fs, new_fact, i + 1, best_match,
                                       best_sim)

(* The candidate loop without the skip of invalid facts *)
RECURSIVE FindCandidateAmongAll(_, _, _, _, _)
FindCandidateAmongAll(fs, new_fact, i, best_match, best_sim) ==
    IF i > Len(fs) THEN best_match
    ELSE IF fs[i].scope # new_fact.scope \/ fs[i].kind # new_fact.kind
            \/ fs[i].embedding = NoEmbedding
        THEN FindCandidateAmongAll(fs, new_fact, i + 1, best_match, best_sim)
    ELSE LET sim == CosineSimilarity(new_fact.embedding, fs[i].embedding)
         IN  IF sim > SUPERSESSION_THRESHOLD /\ sim > best_sim
             THEN FindCandidateAmongAll(fs, new_fact, i + 1, i, sim)
             ELSE FindCandidateAmongAll(fs, new_fact, i + 1, best_match,
                                        best_sim)

(* The candidate loop keeping the last of the facts of equal similarity *)
RECURSIVE FindCandidateLastOfEquals(_, _, _, _, _)
FindCandidateLastOfEquals(fs, new_fact, i, best_match, best_sim) ==
    IF i > Len(fs) THEN best_match
    ELSE IF ~fs[i].is_valid
        THEN FindCandidateLastOfEquals(fs, new_fact, i + 1, best_match, best_sim)
    ELSE IF fs[i].scope # new_fact.scope \/ fs[i].kind # new_fact.kind
        THEN FindCandidateLastOfEquals(fs, new_fact, i + 1, best_match, best_sim)
    ELSE IF fs[i].embedding = NoEmbedding
        THEN FindCandidateLastOfEquals(fs, new_fact, i + 1, best_match, best_sim)
    ELSE LET sim == CosineSimilarity(new_fact.embedding, fs[i].embedding)
         IN  IF sim > SUPERSESSION_THRESHOLD /\ sim >= best_sim
             THEN FindCandidateLastOfEquals(fs, new_fact, i + 1, i, sim)
             ELSE FindCandidateLastOfEquals(fs, new_fact, i + 1, best_match,
                                            best_sim)

(* The loop of FactStore._find_supersession_candidate from position i on:
   best_match is the position of the best fact so far (0 for None). *)
RECURSIVE FindCandidateFrom(_, _, _, _, _)
FindCandidateFrom(fs, new_fact, i, best_match, best_sim) ==
    IF i > Len(fs) THEN best_match
    ELSE IF ~fs[i].is_valid
        THEN FindCandidateFrom(fs, new_fact, i + 1, best_match, best_sim)
    ELSE IF fs[i].scope # new_fact.scope \/ fs[i].kind # new_fact.kind
        THEN FindCandidateFrom(fs, new_fact, i + 1, best_match, best_sim)
    ELSE IF fs[i].embedding = NoEmbedding
        THEN FindCandidateFrom(fs, new_fact, i + 1, best_match, best_sim)
    ELSE LET sim == CosineSimilarity(new_fact.embedding, fs[i].embedding)
         IN  IF sim > SUPERSESSION_THRESHOLD /\ sim > best_sim
             THEN FindCandidateFrom(fs, new_fact, i + 1, i, sim)
             ELSE FindCandidateFrom(fs, new_fact, i + 1, best_match, best_sim)

(* FactStore._find_supersession_candidate: the position in fs of the fact
   the new fact supersedes, 0 when there is none. *)
FindSupersessionCandidate(fs, new_fact) ==
    IF new_fact.embedding = NoEmbedding
    THEN 0
    ELSE FindCandidateFrom(fs, new_fact, 1, 0, 0)

(* The cascade carried on to the dependents of the dependents *)
CascadeTransitive(fs, superseded_id) ==
    LET direct == {fs[i].id : i \in {j \in DOMAIN fs :
                       superseded_id \in fs[j].depends_on /\ fs[j].is_valid}}
    IN  [i \in DOMAIN fs |->
            IF fs[i].depends_on \cap (direct \cup {superseded_id}) # {}
               /\ fs[i].is_valid
            THEN [fs[i] EXCEPT !.needs_review = TRUE]
            ELSE fs[i]]

(* FactStore._cascade_needs_review *)
CascadeNeedsReview(fs, superseded_id) ==
    [i \in DOMAIN fs |->
        IF superseded_id \in fs[i].depends_on /\ fs[i].is_valid
        THEN [fs[i] EXCEPT !.needs_review = TRUE]
        ELSE fs[i]]

(* _supersede removing the old fact from the list *)
SupersedeReplacing(fs, old, new_fact) ==
    LET new1 == [new_fact EXCEPT
                    !.supersedes = fs[old].id,
                    !.metadata.confidence =
                        Min(100, fs[old].metadata.confidence + 5)]
    IN  [facts |-> SubSeq(fs, 1, old - 1) \o SubSeq(fs, old + 1, Len(fs)),
         fact |-> new1]

(* _supersede raising the new fact's own confidence instead of carrying
   the old fact's forward *)
SupersedeOwnConfidence(fs, old, new_fact) ==
    LET fs1 == [fs EXCEPT ![old].is_valid = FALSE,
                          ![old].superseded_by = new_fact.id]
        new1 == [new_fact EXCEPT
                    !.supersedes = fs[old].id,
                    !.metadata.confidence =
                        Min(100, new_fact.metadata.confidence + 5)]
    IN  [facts |-> CascadeNeedsReview(fs1, fs[old].id), fact |-> new1]

(* _supersede without the link from the new fact back to the old one *)
SupersedeOneWay(fs, old, new_fact) ==
    LET fs1 == [fs EXCEPT ![old].is_valid = FALSE,
                          ![old].superseded_by = new_fact.id]
        new1 == [new_fact EXCEPT
                    !.metadata.confidence =
                        Min(100, fs[old].metadata.confidence + 5)]
    IN  [facts |-> CascadeNeedsReview(fs1, fs[old].id), fact |-> new1]

(* _supersede without the cap on the raised confidence. *)
SupersedeUncapped(fs, old, new_fact) ==
    LET fs1 == [fs EXCEPT ![old].is_valid = FALSE,
                          ![old].superseded_by = new_fact.id]
        new1 == [new_fact EXCEPT
                    !.supersedes = fs[old].id,
                    !.metadata.confidence = fs[old].metadata.confidence + 5]
    IN  [facts |-> CascadeNeedsReview(fs1, fs[old].id), fact |-> new1]

(* FactStore._supersede(old, new), old given by its position in fs: the
   list and the new fact after the call. *)
Supersede(fs, old, new_fact) ==
    LET fs1 == [fs EXCEPT ![old].is_valid = FALSE,
                          ![old].superseded_by = new_fact.id]
        new1 == [new_fact EXCEPT
                    !.supersedes = fs[old].id,
                    !.metadata.confidence =
                        Min(100, fs[old].metadata.confidence + 5)]
    IN  [facts |-> CascadeNeedsReview(fs1, fs[old].id), fact |-> new1]

----------------------------------------------------------------------------
(* store.py: persistence *)

Partitions == {"global", "org", "project"}

(* A partition file: whether it exists, the fact records it holds, and
   what is wrong with it: "none", "unreadable" (open or read raises
   OSError), "not_json" (json.load raises JSONDecodeError), "wrong_shape"
   (valid JSON that is not an object holding a list of fact objects) or
   "unknown_kind" (a fact record whose kind or scope is not a member of
   the enumeration). *)
NoFile == [exists |-> FALSE, facts |-> <<>>, fault |-> "none"]

(* FactStore.__init__: _org_path and _project_path are None for an unknown
   org and for an empty project id. *)
HasPath(p, org, proj) ==
    CASE p = "global" -> TRUE
      [] p = "org" -> org # "unknown"
      [] p = "project" -> proj # ""

PartitionScopes(p) ==
    CASE p = "global" -> {"global"}
      [] p = "org" -> {"org"}
      [] p = "project" -> {"project", "session"}

RECURSIVE ToDicts(_)
ToDicts(fs) ==
    IF fs = <<>> THEN <<>> ELSE <<ToDict(Head(fs))>> \o ToDicts(Tail(fs))

RECURSIVE FromDicts(_)
FromDicts(ds) ==
    IF ds = <<>> THEN <<>> ELSE <<FromDict(Head(ds))>> \o FromDicts(Tail(ds))

(* FactStore._save_file, the write succeeding *)
SaveFile(fs) == [exists |-> TRUE, facts |-> ToDicts(fs), fault |-> "none"]

(* save keeping the records of the file that the list does not hold *)
SaveWithMerging(fs, fl, org, proj, failing) ==
    [p \in Partitions |->
        IF HasPath(p, org, proj) /\ p \notin failing
        THEN [exists |-> TRUE,
              facts |-> SelectSeq(fl[p].facts, LAMBDA d : d.id \notin Ids(fs))
                        \o ToDicts(SelectSeq(fs, LAMBDA f :
                                        f.scope \in PartitionScopes(p))),
              fault |-> "none"]
        ELSE fl[p]]

(* FactStore.save when the writes of the partitions in failing raise in
   open(): _save_file catches the exception and logs it, the file stays as
   it was. *)
SaveWith(fs, fl, org, proj, failing) ==
    [p \in Partitions |->
        IF HasPath(p, org, proj) /\ p \notin failing
        THEN SaveFile(SelectSeq(fs, LAMBDA f : f.scope \in PartitionScopes(p)))
        ELSE fl[p]]

(* FactStore.save: the files after the call *)
Save(fs, fl, org, proj) == SaveWith(fs, fl, org, proj, {})

(* FactStore._load_file raises: the exceptions it does not catch, from
   data.get on a value that is no dict, from Fact.from_dict on a record
   that is no dict, and from FactKind(...) or FactScope(...) on an unknown
   value *)
LoadFileRaises(fl, p, org, proj) ==
    /\ HasPath(p, org, proj)
    /\ fl[p].exists
    /\ fl[p].fault \in {"wrong_shape", "unknown_kind"}

(* FactStore._load_file, when it returns *)
LoadFile(fl, p, org, proj) ==
    IF ~HasPath(p, org, proj) \/ ~fl[p].exists
    THEN <<>>
    ELSE IF fl[p].fault \in {"unreadable", "not_json"}
    THEN <<>>
    ELSE FromDicts(fl[p].facts)

(* FactStore.load raises *)
LoadRaises(fl, org, proj) ==
    \E p \in Partitions : LoadFileRaises(fl, p, org, proj)

(* FactStore.load: the in-memory list after the call; when a file raises,
   the list extended so far *)
Load(fl, org, proj) ==
    IF LoadFileRaises(fl, "global", org, proj) THEN <<>>
    ELSE IF LoadFileRaises(fl, "org", org, proj)
    THEN LoadFile(fl, "global", org, proj)
    ELSE IF LoadFileRaises(fl, "project", org, proj)
    THEN LoadFile(fl, "global", org, proj) \o LoadFile(fl, "org", org, proj)
    ELSE LoadFile(fl, "global", org, proj)
             \o LoadFile(fl, "org", org, proj)
             \o LoadFile(fl, "project", org, proj)

----------------------------------------------------------------------------
(* store.py and context.py: scoring *)

(* list.sort(key, reverse=True): stable, descending by key.  The elements
   are [item, key] pairs; SortDesc(items, keys) sorts items[j] under
   keys[j]. *)
(* The insertion placing x before the elements of its key *)
RECURSIVE InsertBeforeEquals(_, _)
InsertBeforeEquals(sorted, x) ==
    IF sorted = <<>> THEN <<x>>
    ELSE IF Head(sorted).key > x.key
        THEN <<Head(sorted)>> \o InsertBeforeEquals(Tail(sorted), x)
        ELSE <<x>> \o sorted

RECURSIVE InsertDesc(_, _)
InsertDesc(sorted, x) ==
    IF sorted = <<>> THEN <<x>>
    ELSE IF Head(sorted).key >= x.key
        THEN <<Head(sorted)>> \o InsertDesc(Tail(sorted), x)
        ELSE <<x>> \o sorted

RECURSIVE SortDescFrom(_, _, _)
SortDescFrom(s, i, sorted) ==
    IF i > Len(s) THEN sorted
    ELSE SortDescFrom(s, i + 1, InsertDesc(sorted, s[i]))

SortDesc(items, keys) ==
    LET keyed == [j \in DOMAIN items |-> [item |-> items[j], key |-> keys[j]]]
        sorted == SortDescFrom(keyed, 1, <<>>)
    IN  [j \in DOMAIN sorted |-> sorted[j].item]

(* The slice that takes one element more *)
SliceOneMore(s, k) == SubSeq(s, 1, Min(k + 1, Len(s)))

(* s[:k] of Python *)
Slice(s, k) ==
    IF k >= 0
    THEN SubSeq(s, 1, Min(k, Len(s)))
    ELSE SubSeq(s, 1, Len(s) + k)

(* score = sim * confidence * (0.5 + 0.5 * recency), recency = 0.5 ^ age,
   times 2 ^ (MaxTime + 1) to stay in whole numbers. *)
Score(fact, query_embedding, t) ==
    LET sim == IF query_embedding # NoEmbedding /\ fact.embedding # NoEmbedding
               THEN CosineSimilarity(query_embedding, fact.embedding)
               ELSE 5000
        age == t - fact.metadata.last_accessed
    IN  sim * fact.metadata.confidence * (Pow2(MaxTime) + Pow2(MaxTime - age))

(* The positions at which flags is true, in order: the positions a list
   comprehension keeps *)
Positions(flags) == SelectSeq([i \in DOMAIN flags |-> i], LAMBDA i : flags[i])

(* The pool without the exclusion of constraints *)
InPoolAnyKind(f) == f.is_valid

(* retrieve_relevant: the candidate pool *)
InPool(f) == f.is_valid /\ f.kind # "constraint"

(* retrieve_relevant: the positions of the returned facts, in order *)
Retrieved(fs, query_embedding, k, t) ==
    LET valid_facts == Positions([i \in DOMAIN fs |-> InPool(fs[i])])
        scored == SortDesc(valid_facts,
                           [j \in DOMAIN valid_facts |->
                               Score(fs[valid_facts[j]], query_embedding, t)])
    IN  Slice(scored, k)

(* The update applied to every scored fact instead of the returned ones *)
TouchScored(fs, returned, t) ==
    [i \in DOMAIN fs |->
        IF fs[i].is_valid /\ fs[i].kind # "constraint"
        THEN [fs[i] EXCEPT !.metadata.last_accessed = t,
                           !.metadata.access_count = @ + 1]
        ELSE fs[i]]

(* The update clearing needs_review of the returned facts *)
TouchClearingReview(fs, returned, t) ==
    [i \in DOMAIN fs |->
        IF i \in Range(returned)
        THEN [fs[i] EXCEPT !.metadata.last_accessed = t,
                           !.metadata.access_count = @ + 1,
                           !.needs_review = FALSE]
        ELSE fs[i]]

(* retrieve_relevant: the list after the access metadata update *)
Touch(fs, returned, t) ==
    [i \in DOMAIN fs |->
        IF i \in Range(returned)
        THEN [fs[i] EXCEPT !.metadata.last_accessed = t,
                           !.metadata.access_count = @ + 1]
        ELSE fs[i]]

----------------------------------------------------------------------------
(* context.py: ContextAssembler.assemble *)

MAX_INVALIDATED_FACTS == 3

ScopeOrder(scope) ==
    CASE scope = "global" -> 0
      [] scope = "org" -> 1
      [] scope = "project" -> 2
      [] scope = "session" -> 3
      [] OTHER -> 99

(* The branches with the session scope tested before the kinds *)
LayerScopeFirst(f) ==
    IF f.scope = "session" /\ f.is_valid THEN "working_set"
    ELSE IF f.kind = "constraint" /\ f.is_valid THEN "constraints"
    ELSE IF f.kind = "known_unknown" /\ f.is_valid THEN "known_unknowns"
    ELSE IF f.is_valid THEN "valid_facts"
    ELSE IF ~f.is_valid /\ f.superseded_by # NoId THEN "invalidated_facts"
    ELSE "none"

(* The layer of one fact: the first matching branch of the loop *)
Layer(f) ==
    IF f.kind = "constraint" /\ f.is_valid THEN "constraints"
    ELSE IF f.kind = "known_unknown" /\ f.is_valid THEN "known_unknowns"
    ELSE IF f.scope = "session" /\ f.is_valid THEN "working_set"
    ELSE IF f.is_valid THEN "valid_facts"
    ELSE IF ~f.is_valid /\ f.superseded_by # NoId THEN "invalidated_facts"
    ELSE "none"

(* The ContextResult, every layer as the positions in fs of its facts *)
Assemble(fs, query_embedding, k, t) ==
    LET InLayer(name) == Positions([i \in DOMAIN fs |-> Layer(fs[i]) = name])
        Keyed(ps, Key(_)) == [j \in DOMAIN ps |-> Key(fs[ps[j]])]
        constraints ==
            SortDesc(InLayer("constraints"),
                     Keyed(InLayer("constraints"),
                           LAMBDA f : 0 - ScopeOrder(f.scope)))
        scored_valid ==
            SortDesc(InLayer("valid_facts"),
                     Keyed(InLayer("valid_facts"),
                           LAMBDA f : Score(f, query_embedding, t)))
        invalidated ==
            SortDesc(InLayer("invalidated_facts"),
                     Keyed(InLayer("invalidated_facts"),
                           LAMBDA f : f.metadata.last_accessed))
    IN  [constraints |-> constraints,
         valid_facts |-> Slice(scored_valid, k),
         invalidated_facts |-> Slice(invalidated, MAX_INVALIDATED_FACTS),
         working_set |-> InLayer("working_set"),
         known_unknowns |-> InLayer("known_unknowns")]

----------------------------------------------------------------------------
(* store.py: embeddings.  A text is identified with the vector the model
   produces for it, the empty or blank text with NoEmbedding; provided is
   what the provider yields on this call: that vector, or NoEmbedding when
   there is no embedder, embed raises, yields nothing or yields a vector
   with NaN or Inf.  A cache is the sequence of its entries, least recently
   used first. *)

(* The capacity of the cache, 500 in the code, scaled to the model *)
EMBEDDING_CACHE_MAX_SIZE == MaxCache

(* The position of the entry of a key in the cache, 0 when it has none *)
CachePosition(cache, key) ==
    IF \E i \in DOMAIN cache : cache[i].key = key
    THEN CHOOSE i \in DOMAIN cache : cache[i].key = key
    ELSE 0

(* OrderedDict.move_to_end *)
MoveToEnd(cache, i) ==
    SubSeq(cache, 1, i - 1) \o SubSeq(cache, i + 1, Len(cache)) \o <<cache[i]>>

(* _embed_text evicting whenever the cache is full *)
InsertEvictingAtCapacity(cache, entry) ==
    IF Len(cache) + 1 >= EMBEDDING_CACHE_MAX_SIZE
    THEN Tail(Append(cache, entry))
    ELSE Append(cache, entry)

(* The assignment of a new key and the popitem(last=False) that follows it *)
Insert(cache, entry) ==
    IF Len(cache) + 1 > EMBEDDING_CACHE_MAX_SIZE
    THEN Tail(Append(cache, entry))
    ELSE Append(cache, entry)

(* _embed_text returning the vector of the text whatever the provider
   yields *)
EmbedTextUnguarded(cache, text, provided) ==
    IF text = NoEmbedding
    THEN [cache |-> cache, embedding |-> NoEmbedding]
    ELSE [cache |-> Insert(cache, [key |-> text, embedding |-> text]),
          embedding |-> text]

(* FactStore._embed_text(text): the cache after the call and the value
   returned *)
EmbedText(cache, text, provided) ==
    IF text = NoEmbedding
    THEN [cache |-> cache, embedding |-> NoEmbedding]
    ELSE IF CachePosition(cache, text) # 0
    THEN [cache |-> MoveToEnd(cache, CachePosition(cache, text)),
          embedding |-> cache[CachePosition(cache, text)].embedding]
    ELSE IF provided # NoEmbedding
    THEN [cache |-> Insert(cache, [key |-> text, embedding |-> provided]),
          embedding |-> provided]
    ELSE [cache |-> cache, embedding |-> NoEmbedding]

----------------------------------------------------------------------------
(* context.py: format_context_for_prompt.  A text is the sequence of its
   characters; a rendered line is recorded as the section it belongs to,
   the fact it renders (NoId for the section heading), and the characters
   of the fact's body it contains. *)

(* s[:n] taking one character more *)
TakeOneMore(s, n) == SubSeq(s, 1, Min(Len(s), n + 1))

(* s[:n] *)
Take(s, n) == SubSeq(s, 1, Min(Len(s), n))

(* The slice applied to fact.body in each section: -1 where the body is
   rendered whole *)
BodyLimit(section) ==
    CASE section = "constraints" -> -1
      [] section = "valid_facts" -> 200
      [] section = "invalidated_facts" -> 150
      [] section = "known_unknowns" -> 150
      [] section = "working_set" -> 200

(* The order in which the sections are rendered *)
SectionOrder ==
    <<"constraints", "valid_facts", "invalidated_facts", "known_unknowns",
      "working_set">>

(* The lines of one section: nothing for an empty layer, else the heading
   and one line for each fact (the subject line and the body line of a
   constraint are taken as one) *)
FormatSection(fs, ctx, section) ==
    LET ps == ctx[section]
        Rendered(f) == IF BodyLimit(section) < 0 THEN f.body
                       ELSE Take(f.body, BodyLimit(section))
    IN  IF ps = <<>> THEN <<>>
        ELSE <<[section |-> section, fact |-> NoId, body |-> <<>>]>> \o
             [j \in DOMAIN ps |->
                 [section |-> section, fact |-> fs[ps[j]].id,
                  body |-> Rendered(fs[ps[j]])]]

RECURSIVE FormatFrom(_, _, _)
FormatFrom(fs, ctx, i) ==
    IF i > Len(SectionOrder) THEN <<>>
    ELSE FormatSection(fs, ctx, SectionOrder[i]) \o FormatFrom(fs, ctx, i + 1)

(* ContextAssembler.format_context_for_prompt(ctx), ctx holding positions
   in fs *)
FormatContextForPrompt(fs, ctx) == FormatFrom(fs, ctx, 1)

----------------------------------------------------------------------------
(* constraints.py: ConstraintIngester *)

CONSTRAINT_FILES ==
    << [path |-> "~/.claude/CLAUDE.md", scope |-> "global"],
       [path |-> "{project}/CLAUDE.md", scope |-> "project"],
       [path |-> "{project}/agents.md", scope |-> "project"],
       [path |-> "{project}/.cursor/rules", scope |-> "project"] >>

(* A constraint file: whether it exists, the bodies of its sections, and
   what is wrong with it: "none", "io" (reading raises OSError) or "decode"
   (its bytes are not UTF-8: read_bytes returns, read_text raises
   UnicodeDecodeError). *)
NoDoc == [exists |-> FALSE, sections |-> <<>>, fault |-> "none"]

(* str.strip on the section bodies of the model *)
Strip(body) ==
    CASE body = " " -> ""
      [] body = " use tabs " -> "use tabs"
      [] OTHER -> body

(* ConstraintIngester._file_checksum: SHA-256 of the content, taken as
   injective, and the empty string when reading raises OSError; <<>> stands
   for the empty string, also that of a missing entry. *)
FileChecksum(doc) == IF doc.fault = "io" THEN <<>> ELSE <<doc.sections>>

NoChecksum == <<>>

(* The facts of every section, the blank ones too *)
RECURSIVE SectionFactsOfAll(_, _, _, _, _, _, _)
SectionFactsOfAll(sections, j, id, file, org, proj, t) ==
    IF j > Len(sections) THEN <<>>
    ELSE <<NewFact(id, Strip(sections[j]), "constraint", file.scope, org,
                   proj, file.path, 100, NoEmbedding, {}, t)>>
         \o SectionFactsOfAll(sections, j + 1, id + 1, file, org, proj, t)

(* The facts of the non-empty sections from position j on, with ids from id *)
RECURSIVE SectionFacts(_, _, _, _, _, _, _)
SectionFacts(sections, j, id, file, org, proj, t) ==
    IF j > Len(sections) THEN <<>>
    ELSE IF Strip(sections[j]) = ""
        THEN SectionFacts(sections, j + 1, id, file, org, proj, t)
    ELSE <<NewFact(id, Strip(sections[j]), "constraint", file.scope, org,
                   proj, file.path, 100, NoEmbedding, {}, t)>>
         \o SectionFacts(sections, j + 1, id + 1, file, org, proj, t)

(* ConstraintIngester._split_markdown, when it returns: no section when
   reading raises OSError *)
SplitMarkdown(doc) == IF doc.fault = "io" THEN <<>> ELSE doc.sections

(* The loop of ConstraintIngester.ingest from file i on.  st holds
   existing_facts, new_facts, superseded_facts (as ids), _checksums and
   whether the loop was left by an exception: the UnicodeDecodeError of
   _split_markdown, which nothing catches. *)
RECURSIVE IngestFrom(_, _, _, _, _, _, _)
IngestFrom(i, st, ds, org, proj, id, t) ==
    IF i > Len(CONSTRAINT_FILES) THEN st
    ELSE IF ~ds[i].exists
        THEN IngestFrom(i + 1, st, ds, org, proj, id, t)
    ELSE IF FileChecksum(ds[i]) = st.checksums[i]
        THEN IngestFrom(i + 1, st, ds, org, proj, id, t)
    ELSE LET file == CONSTRAINT_FILES[i]
             Stale(f) == /\ f.kind = "constraint"
                         /\ f.metadata.source_file = file.path
                         /\ f.is_valid
             existing == [n \in DOMAIN st.existing |->
                            IF Stale(st.existing[n])
                            THEN [st.existing[n] EXCEPT !.is_valid = FALSE]
                            ELSE st.existing[n]]
             gone == {st.existing[n].id :
                         n \in {m \in DOMAIN st.existing : Stale(st.existing[m])}}
             made == SectionFacts(SplitMarkdown(ds[i]), 1,
                                  id + Len(st.new_facts), file, org, proj, t)
         IN  IF ds[i].fault = "decode"
             THEN [existing |-> existing,
                   new_facts |-> st.new_facts,
                   superseded |-> st.superseded \cup gone,
                   checksums |-> st.checksums,
                   raised |-> TRUE]
             ELSE IngestFrom(i + 1,
                             [existing |-> existing,
                              new_facts |-> st.new_facts \o made,
                              superseded |-> st.superseded \cup gone,
                              checksums |-> [st.checksums EXCEPT
                                                ![i] = FileChecksum(ds[i])],
                              raised |-> FALSE],
                             ds, org, proj, id, t)

(* ingest with the stored checksums forgotten *)
IngestForgetting(fs, sums, ds, org, proj, id, t) ==
    IngestFrom(1,
               [existing |-> fs, new_facts |-> <<>>, superseded |-> {},
                checksums |-> [i \in DOMAIN sums |-> NoChecksum],
                raised |-> FALSE],
               ds, org, proj, id, t)

(* ConstraintIngester.ingest(existing_facts), checksums loaded from and
   saved to the side file. *)
Ingest(fs, sums, ds, org, proj, id, t) ==
    IngestFrom(1,
               [existing |-> fs, new_facts |-> <<>>, superseded |-> {},
                checksums |-> sums, raised |-> FALSE],
               ds, org, proj, id, t)

----------------------------------------------------------------------------
(* The state after FactStore.__init__ on an empty home directory: no
   partition file, no constraint file, no stored checksum, no fact. *)

(* update_checker: no call of perform_auto_install yet *)
NoCall ==
    [target |-> 0, installed |-> 0, pip |-> "none", invoked |-> FALSE,
     returned |-> FALSE]

(* _get_current_version() when the package metadata is not found *)
UnknownVersion == 0

(* update_checker: the package at its first version, no update cache, an
   empty auto_update.log, pip never run *)
NoUpdater ==
    [installed |-> 1, cache |-> FALSE, log |-> 0, pip_runs |-> 0,
     call |-> NoCall]

(* A FactStore whose constructor found nothing to load *)
NoInstance == [facts |-> <<>>, embedding_cache |-> <<>>]

EmptyContext ==
    [constraints |-> <<>>, valid_facts |-> <<>>, invalidated_facts |-> <<>>,
     working_set |-> <<>>, known_unknowns |-> <<>>]

Call(op, pre, candidate, fact, query, k, result, context) ==
    [op |-> op, pre |-> pre, candidate |-> candidate, fact |-> fact,
     query |-> query, k |-> k, result |-> result, context |-> context,
     t |-> now, raised |-> FALSE, confidence |-> 0, rendered |-> <<>>,
     text |-> <<>>, provided |-> <<>>, cache |-> <<>>]

InitWith(orgs, projs) ==
    /\ org_id \in orgs
    /\ project_id \in projs
    /\ facts = <<>>
    /\ files = [p \in Partitions |-> NoFile]
    /\ docs = [i \in DOMAIN CONSTRAINT_FILES |-> NoDoc]
    /\ checksums = [i \in DOMAIN CONSTRAINT_FILES |-> NoChecksum]
    /\ now = 0
    /\ next_id = 1
    /\ last = Call("init", <<>>, 0, NoId, NoEmbedding, 0, <<>>, EmptyContext)
    /\ embedding_cache = <<>>
    /\ other = NoInstance
    /\ updater = NoUpdater

----------------------------------------------------------------------------
(* store.py: the public operations *)

(* FactStore.add_fact of a text, provided being what the embedding provider
   yields for it on this call and failing the partitions whose file cannot
   be written. *)
AddFactOf(body, kind, scope, confidence, file, text, provided, deps, failing) ==
    LET e == EmbedText(embedding_cache, text, provided)
        embedding == e.embedding
        fact == NewFact(next_id, body, kind, scope, org_id, project_id,
                        file, confidence, embedding, deps, now)
        candidate == FindSupersessionCandidate(facts, fact)
        r == IF candidate # 0
             THEN Supersede(facts, candidate, fact)
             ELSE [facts |-> facts, fact |-> fact]
    IN  /\ facts' = Append(r.facts, r.fact)
        /\ files' = SaveWith(facts', files, org_id, project_id, failing)
        /\ next_id' = next_id + 1
        /\ embedding_cache' = e.cache
        /\ last' = [Call("add_fact", facts, candidate, fact.id, embedding,
                         0, <<fact.id>>, EmptyContext)
                        EXCEPT !.confidence = confidence, !.text = text,
                               !.provided = provided,
                               !.cache = embedding_cache]
        /\ UNCHANGED <<docs, checksums, now, org_id, project_id, other, updater>>

(* FactStore.add_fact with a working provider: embedding is the vector of
   the text, NoEmbedding for a text that gets none *)
AddFactWith(body, kind, scope, confidence, file, embedding, deps, failing) ==
    AddFactOf(body, kind, scope, confidence, file, embedding, embedding, deps,
              failing)

(* FactStore.add_fact, every file writable *)
AddFact(body, kind, scope, confidence, source_file, embedding, depends_on) ==
    AddFactWith(body, kind, scope, confidence, source_file, embedding,
                depends_on, {})

(* FactStore.retrieve_relevant of a query text *)
RetrieveRelevantOf(text, provided, k) ==
    LET e == EmbedText(embedding_cache, text, provided)
        query_embedding == e.embedding
        returned == Retrieved(facts, query_embedding, k, now)
    IN  /\ facts' = Touch(facts, returned, now)
        /\ embedding_cache' = e.cache
        /\ last' = [Call("retrieve_relevant", facts, 0, NoId,
                         query_embedding, k,
                         [j \in DOMAIN returned |-> facts[returned[j]].id],
                         EmptyContext)
                        EXCEPT !.text = text, !.provided = provided,
                               !.cache = embedding_cache]
        /\ UNCHANGED <<files, docs, checksums, now, next_id, org_id,
                       project_id, other, updater>>

(* FactStore.retrieve_relevant with a working provider; query_embedding is
   the vector of the query *)
RetrieveRelevant(query_embedding, k) ==
    RetrieveRelevantOf(query_embedding, query_embedding, k)

(* build_context recording the access of the valid facts it returns, as
   retrieve_relevant does *)
BuildContextTouching(text, provided, k) ==
    LET e == EmbedText(embedding_cache, text, provided)
        query_embedding == e.embedding
        ctx == Assemble(facts, query_embedding, k, now)
    IN  /\ embedding_cache' = e.cache
        /\ facts' = Touch(facts, ctx.valid_facts, now)
        /\ last' = [Call("build_context", facts, 0, NoId, query_embedding, k,
                         <<>>, ctx)
                        EXCEPT !.text = text, !.provided = provided,
                               !.cache = embedding_cache]
        /\ UNCHANGED <<files, docs, checksums, now, next_id, org_id,
                       project_id, other, updater>>

(* FactStore.build_context of a query text *)
BuildContextOf(text, provided, k) ==
    LET e == EmbedText(embedding_cache, text, provided)
        query_embedding == e.embedding
    IN  /\ embedding_cache' = e.cache
        /\ last' = [Call("build_context", facts, 0, NoId, query_embedding, k,
                         <<>>, Assemble(facts, query_embedding, k, now))
                        EXCEPT !.text = text, !.provided = provided,
                               !.cache = embedding_cache]
        /\ UNCHANGED <<facts, files, docs, checksums, now, next_id, org_id,
                       project_id, other, updater>>

(* FactStore.build_context with a working provider *)
BuildContext(query_embedding, k) ==
    BuildContextOf(query_embedding, query_embedding, k)

(* FactStore.format_context_for_prompt on the ContextResult the preceding
   build_context returned *)
FormatContext ==
    /\ last.op = "build_context"
    /\ last' = [last EXCEPT
                    !.op = "format_context",
                    !.rendered = FormatContextForPrompt(facts, last.context)]
    /\ UNCHANGED <<facts, files, docs, checksums, now, next_id, org_id,
                   project_id, embedding_cache, other, updater>>

(* FactStore._ingest_constraints on the list fs; the call is recorded with
   the list handed to ingest and the ids of the facts it created *)
IngestInto(op, fs) ==
    LET r == Ingest(fs, checksums, docs, org_id, project_id, next_id, now)
    IN  IF r.raised
        THEN \* the exception leaves ingest before _save_checksums and
             \* _ingest_constraints before extend and save
             /\ facts' = r.existing
             /\ last' = [Call(op, fs, 0, NoId, NoEmbedding, 0, <<>>,
                              EmptyContext) EXCEPT !.raised = TRUE]
             /\ UNCHANGED <<files, docs, checksums, now, next_id, org_id,
                            project_id, other, updater>>
        ELSE /\ checksums' = r.checksums
             /\ next_id' = next_id + Len(r.new_facts)
             /\ IF r.new_facts # <<>> \/ r.superseded # {}
                THEN /\ facts' = r.existing \o r.new_facts
                     /\ files' = Save(facts', files, org_id, project_id)
                ELSE /\ facts' = r.existing
                     /\ UNCHANGED files
             /\ last' = Call(op, fs, 0, NoId, NoEmbedding, 0,
                             [j \in DOMAIN r.new_facts |-> r.new_facts[j].id],
                             EmptyContext)
             /\ UNCHANGED <<docs, now, org_id, project_id, other, updater>>

IngestConstraints ==
    /\ IngestInto("ingest", facts)
    /\ UNCHANGED embedding_cache

(* FactStore.__init__ by a new process on the same home directory: load,
   then constraint ingestion (no legacy memory file is present). *)
Construct ==
    /\ embedding_cache' = <<>>
    /\ IF LoadRaises(files, org_id, project_id)
       THEN \* load raises and the constructor with it
            /\ facts' = Load(files, org_id, project_id)
            /\ last' = [Call("init", <<>>, 0, NoId, NoEmbedding, 0, <<>>,
                             EmptyContext) EXCEPT !.raised = TRUE]
            /\ UNCHANGED <<files, docs, checksums, now, next_id, org_id,
                           project_id, other, updater>>
       ELSE IngestInto("init", Load(files, org_id, project_id))

(* FactStore.save called by the user of the store *)
SaveStore ==
    /\ files' = Save(facts, files, org_id, project_id)
    /\ files' # files
    /\ last' = Call("save", facts, 0, NoId, NoEmbedding, 0, <<>>, EmptyContext)
    /\ UNCHANGED <<facts, docs, checksums, now, next_id, org_id, project_id,
                   embedding_cache, other, updater>>

(* The two FactStore objects of the home directory change places: the next
   calls are made on the other one *)
SwitchInstance ==
    /\ facts' = other.facts
    /\ embedding_cache' = other.embedding_cache
    /\ other' = [facts |-> facts, embedding_cache |-> embedding_cache]
    /\ last' = Call("switch", facts, 0, NoId, NoEmbedding, 0, <<>>,
                    EmptyContext)
    /\ UNCHANGED <<files, docs, checksums, now, next_id, org_id, project_id,
                   updater>>

----------------------------------------------------------------------------
(* update_checker.py.  Versions are numbered in release order; log counts
   the entries of auto_update.log; pip is what subprocess.run does: "ok"
   (return code 0), "failed" (another return code), "timeout"
   (TimeoutExpired) or "error" (any other exception); latest is the release
   pip install --upgrade finds. *)

(* perform_auto_install(new_version) *)
PerformAutoInstall(new_version, log_writable, pip, latest) ==
    LET current_version == updater.installed
        call == [target |-> new_version, installed |-> current_version,
                 pip |-> pip, invoked |-> FALSE, returned |-> FALSE]
    IN  /\ updater.pip_runs < MaxRuns
        /\ latest >= updater.installed
        /\ latest >= new_version
        /\ updater' =
               IF ~log_writable
               THEN \* open(log_file, 'a') raises: except Exception
                    [updater EXCEPT !.call = call]
               ELSE IF pip = "ok"
               THEN \* success entry, cache_file.unlink(), return True
                    [installed |-> latest, cache |-> FALSE,
                     log |-> updater.log + 2,
                     pip_runs |-> updater.pip_runs + 1,
                     call |-> [call EXCEPT !.invoked = TRUE,
                                           !.returned = TRUE]]
               ELSE \* failure entry for a return code, none for an
                    \* exception; return False
                    [updater EXCEPT
                        !.log = IF pip = "failed" THEN @ + 2 ELSE @ + 1,
                        !.pip_runs = @ + 1,
                        !.call = [call EXCEPT !.invoked = TRUE]]
        /\ UNCHANGED <<facts, files, docs, checksums, now, next_id, org_id,
                       project_id, last, embedding_cache, other>>

(* _write_cache: check_for_updates records the result of a check *)
WriteCache ==
    /\ ~updater.cache
    /\ updater' = [updater EXCEPT !.cache = TRUE]
    /\ UNCHANGED <<facts, files, docs, checksums, now, next_id, org_id,
                   project_id, last, embedding_cache, other>>

----------------------------------------------------------------------------
(* The environment *)

(* The clock advances *)
Tick ==
    /\ now < MaxTime
    /\ now' = now + 1
    /\ UNCHANGED <<facts, files, docs, checksums, next_id, org_id,
                   project_id, last, embedding_cache, other, updater>>

(* The user writes constraint file i *)
EditDoc(i, sections) ==
    LET doc == [exists |-> TRUE, sections |-> sections, fault |-> "none"]
    IN  /\ docs[i] # doc
        /\ docs' = [docs EXCEPT ![i] = doc]
        /\ UNCHANGED <<facts, files, checksums, now, next_id, org_id,
                       project_id, last, embedding_cache, other, updater>>

(* Constraint file i becomes unreadable ("io": its content stays) or is
   overwritten with bytes that are not UTF-8 ("decode") *)
BreakDoc(i, fault) ==
    LET doc == [exists |-> TRUE,
                sections |-> IF fault = "io" THEN docs[i].sections
                                             ELSE <<"\\xff">>,
                fault |-> fault]
    IN  /\ docs[i] # doc
        /\ docs' = [docs EXCEPT ![i] = doc]
        /\ UNCHANGED <<facts, files, checksums, now, next_id, org_id,
                       project_id, last, embedding_cache, other, updater>>

(* Partition file p is overwritten from outside with content load cannot
   use, or made unreadable *)
CorruptFile(p, fault) ==
    LET file == [exists |-> TRUE, facts |-> <<>>, fault |-> fault]
    IN  /\ files[p] # file
        /\ files' = [files EXCEPT ![p] = file]
        /\ UNCHANGED <<facts, docs, checksums, now, next_id, org_id,
                       project_id, last, embedding_cache, other, updater>>

(* Partition file p is deleted *)
DeleteFile(p) ==
    /\ files[p].exists
    /\ files' = [files EXCEPT ![p] = NoFile]
    /\ UNCHANGED <<facts, docs, checksums, now, next_id, org_id,
                   project_id, last, embedding_cache, other, updater>>

----------------------------------------------------------------------------
(* Inputs of the model *)

EmbA == <<56, 33>>
EmbN == <<65, 0>>
EmbB == <<56, -33>>
EmbM == <<65, 1>>

----------------------------------------------------------------------------
(* Supersession: add_fact over two kinds, two scopes, two confidences and
   embeddings of which EmbN is within the threshold of EmbA and of EmbB,
   and EmbA and EmbB are not within it of each other. *)

InitSupersede == InitWith({"testorg"}, {"testproj1234"})

NextSupersede ==
    \E kind \in {"pattern", "failure"}, scope \in {"project", "global"},
       confidence \in {50, 98},
       embedding \in {NoEmbedding, EmbA, EmbN, EmbB} :
        /\ next_id <= MaxFacts
        /\ AddFact("b", kind, scope, confidence, "", embedding, {})

SpecSupersede == InitSupersede /\ [][NextSupersede]_vars

----------------------------------------------------------------------------
(* The core operations on one store: add_fact, retrieve_relevant,
   build_context and constraint ingestion, with the project's CLAUDE.md
   being edited in between. *)

Init == InitWith({"testorg"}, {"testproj1234"})

Next ==
    \/ \E embedding \in {NoEmbedding, EmbA},
          depends_on \in {{}} \cup {{id} : id \in Ids(facts) \cap {1}} :
           /\ next_id <= MaxFacts
           /\ AddFact("b", "pattern", "project", 50, "", embedding,
                      depends_on)
    \/ \E k \in {1, 2} :
           /\ AccessTotal(facts) < MaxAccess
           /\ RetrieveRelevant(EmbA, k)
    \/ BuildContext(EmbA, 2)
    \/ /\ next_id + Len(Ingest(facts, checksums, docs, org_id, project_id,
                               next_id, now).new_facts) <= MaxFacts + 1
       /\ IngestConstraints
    \/ \E sections \in {<<"use tabs">>, <<" use tabs ", " ">>} :
           EditDoc(2, sections)

Spec == Init /\ [][Next]_vars

----------------------------------------------------------------------------
(* Dependencies: add_fact within one scope and kind, the new fact depending
   on nothing or on one fact of the store. *)

InitCascade == InitWith({"testorg"}, {"testproj1234"})

NextCascade ==
    \E embedding \in {NoEmbedding, EmbA, EmbN, EmbB},
       depends_on \in {{}} \cup {{id} : id \in Ids(facts)} :
        /\ next_id <= MaxChain
        /\ AddFact("b", "pattern", "project", 50, "", embedding, depends_on)

SpecCascade == InitCascade /\ [][NextCascade]_vars

----------------------------------------------------------------------------
(* Retrieval: patterns of confidence 0.5 with an embedding and of
   confidence 0.98 without one (which of the two scores higher depends on
   the query and on their ages), and constraints, retrieved for a query
   with and without an embedding at later and later times. *)

InitRetrieve == InitWith({"testorg"}, {"testproj1234"})

NextRetrieve ==
    \/ \E kind \in {"pattern", "constraint"}, confidence \in {50, 98},
          embedding \in {NoEmbedding, EmbA} :
           /\ next_id <= MaxFacts
           /\ (embedding = NoEmbedding) = (confidence = 98)
           /\ kind = "constraint" => embedding = NoEmbedding
           /\ AddFact("b", kind, "project", confidence, "", embedding, {})
    \/ \E query_embedding \in {NoEmbedding, EmbA}, k \in {0, 1, MaxK} :
           /\ AccessTotal(facts) < MaxAccess
           /\ RetrieveRelevant(query_embedding, k)
    \/ BuildContext(NoEmbedding, MaxK)
    \/ Tick

SpecRetrieve == InitRetrieve /\ [][NextRetrieve]_vars

----------------------------------------------------------------------------
(* Persistence: stores of every resolved identity, facts of every scope and
   of requested confidences in and out of range, and new processes
   constructing a store on the files written so far. *)

InitPersist == InitWith({"unknown", "testorg"}, {"", "testproj1234"})

NextPersist ==
    \/ \E scope \in FactScope, confidence \in {-30, 50, 150} :
           /\ next_id <= MaxFacts
           /\ AddFact("b", "pattern", scope, confidence, "", NoEmbedding, {})
    \/ /\ next_id + Len(Ingest(Load(files, org_id, project_id), checksums,
                               docs, org_id, project_id, next_id,
                               now).new_facts) <= MaxFacts + 1
       /\ Construct
    \/ EditDoc(1, <<"use tabs">>)

SpecPersist == InitPersist /\ [][NextPersist]_vars

----------------------------------------------------------------------------
(* Ingestion: the global and the project CLAUDE.md written and rewritten,
   stores constructed and ingesting in between, and add_fact of patterns
   and of constraints naming the project file as their source, depending
   on nothing or on one fact of the store. *)

InitIngest == InitWith({"testorg"}, {"testproj1234"})

NextIngest ==
    \/ \E kind \in {"pattern", "constraint"},
          depends_on \in {{}} \cup {{id} : id \in Ids(facts)} :
           /\ next_id <= MaxFacts
           /\ AddFact("b", kind, "project", 50,
                      IF kind = "constraint" THEN CONSTRAINT_FILES[2].path
                                             ELSE "",
                      NoEmbedding, depends_on)
    \/ /\ next_id + Len(Ingest(facts, checksums, docs, org_id, project_id,
                               next_id, now).new_facts) <= MaxFacts + 1
       /\ IngestConstraints
    \/ /\ next_id + Len(Ingest(Load(files, org_id, project_id), checksums,
                               docs, org_id, project_id, next_id,
                               now).new_facts) <= MaxFacts + 1
       /\ Construct
    \/ \E i \in {1, 2}, sections \in {<<"use tabs">>, <<" use tabs ", " ">>} :
           EditDoc(i, sections)

SpecIngest == InitIngest /\ [][NextIngest]_vars

----------------------------------------------------------------------------
(* Failures of the environment *)

(* Writes that fail: add_fact of facts of every scope while any of the
   partition files cannot be written. *)
InitWriteFailure == InitWith({"testorg"}, {"testproj1234"})

NextWriteFailure ==
    \E scope \in FactScope, failing \in SUBSET Partitions :
        /\ next_id <= MaxFacts
        /\ AddFactWith("b", "pattern", scope, 50, "", NoEmbedding, {}, failing)

SpecWriteFailure == InitWriteFailure /\ [][NextWriteFailure]_vars

(* Bad partition files: facts saved to the global and the project file, one
   file at a time deleted, made unreadable or overwritten with content
   that load cannot use, and stores constructed on the files. *)
InitLoadFaults == InitWith({"testorg"}, {"testproj1234"})

NextLoadFaults ==
    \/ \E scope \in {"global", "project"} :
           /\ next_id <= MaxFacts
           /\ AddFact("b", "pattern", scope, 50, "", NoEmbedding, {})
    \/ \E p \in {"global", "project"},
          fault \in {"unreadable", "not_json", "wrong_shape", "unknown_kind"} :
           /\ \A q \in Partitions \ {p} : files[q].fault = "none"
           /\ CorruptFile(p, fault)
    \/ \E p \in {"global", "project"} : DeleteFile(p)
    \/ Construct

SpecLoadFaults == InitLoadFaults /\ [][NextLoadFaults]_vars

(* Bad constraint files: the global and the project CLAUDE.md written, one
   at a time made unreadable or overwritten with bytes that are not UTF-8,
   and stores ingesting and constructed in between. *)
InitIngestFaults == InitWith({"testorg"}, {"testproj1234"})

NextIngestFaults ==
    \/ \E i \in {1, 2}, sections \in {<<"use tabs">>, <<"use spaces">>} :
           EditDoc(i, sections)
    \/ \E i \in {1, 2}, fault \in {"io", "decode"} :
           /\ docs[i].exists
           /\ \A j \in DOMAIN docs \ {i} : docs[j].fault = "none"
           /\ BreakDoc(i, fault)
    \/ /\ next_id + Len(Ingest(facts, checksums, docs, org_id, project_id,
                               next_id, now).new_facts) <= MaxFacts + 1
       /\ IngestConstraints
    \/ /\ next_id + Len(Ingest(Load(files, org_id, project_id), checksums,
                               docs, org_id, project_id, next_id,
                               now).new_facts) <= MaxFacts + 1
       /\ Construct

SpecIngestFaults == InitIngestFaults /\ [][NextIngestFaults]_vars

----------------------------------------------------------------------------
(* Context assembly on given lists.  ContextAssembler.assemble is a function
   of the list it is handed: the lists below are every list, up to a length,
   of facts of a menu, the fact at position i having id i, handed to
   build_context at time MaxTime. *)

(* A fact as a caller constructs it: Fact(kind=, scope=, is_valid=,
   superseded_by=, metadata=FactMetadata(last_accessed=)) *)
GivenFact(kind, scope, is_valid, superseded_by, last_accessed) ==
    [NewFact(NoId, "b", kind, scope, "", "", "", 50, NoEmbedding, {},
             last_accessed)
        EXCEPT !.is_valid = is_valid, !.superseded_by = superseded_by]

(* The store holding the list given by f, a function from 1..n to a menu *)
InitGiven(n, f) ==
    /\ org_id = "testorg"
    /\ project_id = "testproj1234"
    /\ facts = [i \in 1..n |-> [f[i] EXCEPT !.id = i]]
    /\ files = [p \in Partitions |-> NoFile]
    /\ docs = [i \in DOMAIN CONSTRAINT_FILES |-> NoDoc]
    /\ checksums = [i \in DOMAIN CONSTRAINT_FILES |-> NoChecksum]
    /\ now = MaxTime
    /\ next_id = n + 1
    /\ last = Call("init", <<>>, 0, NoId, NoEmbedding, 0, <<>>, EmptyContext)
    /\ embedding_cache = <<>>
    /\ other = NoInstance
    /\ updater = NoUpdater

(* Layers: facts of three kinds and two scopes, valid, invalid with a
   successor and invalid without one. *)
MaxLayered == 2

LayerMenu ==
    {GivenFact(kind, scope, v.is_valid, v.superseded_by, 0) :
        kind \in {"constraint", "known_unknown", "pattern"},
        scope \in {"project", "session"},
        v \in {[is_valid |-> TRUE, superseded_by |-> NoId],
               [is_valid |-> FALSE, superseded_by |-> 9],
               [is_valid |-> FALSE, superseded_by |-> NoId]}}

InitLayers ==
    \E n \in 0..MaxLayered : \E f \in [1..n -> LayerMenu] : InitGiven(n, f)

NextLayers == \E k \in {1, 2} : BuildContext(NoEmbedding, k)

SpecLayers == InitLayers /\ [][NextLayers]_vars

(* Constraint order: valid constraints of the four scopes and a pattern *)
MaxGiven == 4

ScopeMenu ==
    {GivenFact("constraint", scope, TRUE, NoId, 0) : scope \in FactScope}
        \cup {GivenFact("pattern", "global", TRUE, NoId, 0)}

InitScopes ==
    \E n \in 0..MaxGiven : \E f \in [1..n -> ScopeMenu] : InitGiven(n, f)

NextScopes == BuildContext(NoEmbedding, 1)

SpecScopes == InitScopes /\ [][NextScopes]_vars

(* Invalidated facts: superseded facts last accessed at every time, a
   valid fact and an invalid fact without a successor *)
InvalidatedMenu ==
    {GivenFact("pattern", "project", FALSE, 9, t) : t \in 0..MaxTime}
        \cup {GivenFact("pattern", "project", TRUE, NoId, 0),
              GivenFact("constraint", "project", FALSE, NoId, MaxTime)}

InitInvalidated ==
    \E n \in 0..MaxGiven : \E f \in [1..n -> InvalidatedMenu] : InitGiven(n, f)

NextInvalidated == BuildContext(NoEmbedding, 1)

SpecInvalidated == InitInvalidated /\ [][NextInvalidated]_vars

----------------------------------------------------------------------------
(* Properties of add_fact *)

(* The fact add_fact returned: the last of the list *)
Added == facts[Len(facts)]

(* Fact a of the prior list is valid, embedded, of the added fact's scope
   and kind, and within the threshold of its embedding. *)
Qualifies(a) ==
    /\ last.pre[a].is_valid
    /\ last.pre[a].embedding # NoEmbedding
    /\ last.query # NoEmbedding
    /\ last.pre[a].scope = Added.scope
    /\ last.pre[a].kind = Added.kind
    /\ CosineSimilarity(last.query, last.pre[a].embedding) > 8500

SimTo(a) == CosineSimilarity(last.query, last.pre[a].embedding)

(* Fact a qualifies with the highest similarity, the first in store order
   among equals. *)
Highest(a) ==
    /\ Qualifies(a)
    /\ \A c \in DOMAIN last.pre :
           Qualifies(c) /\ c # a =>
               SimTo(c) < SimTo(a) \/ (SimTo(c) = SimTo(a) /\ a < c)

(* C1: when add_fact creates B and a valid embedded fact A of B's scope and
   kind has the highest similarity to B, above 0.85, then on return A is
   invalid, A.superseded_by = B.id, B.supersedes = A.id and
   B.confidence = min(1.0, A.confidence + 0.05). *)
C1_SupersessionDeterminism ==
    last.op = "add_fact" =>
        \A a \in DOMAIN last.pre :
            Highest(a) =>
                /\ facts[a].is_valid = FALSE
                /\ facts[a].superseded_by = Added.id
                /\ Added.supersedes = facts[a].id
                /\ Added.metadata.confidence =
                       Min(100, last.pre[a].metadata.confidence + 5)

(* C1 witness: an add_fact with two qualifying facts superseded the higher
   one and the carried confidence reached the cap. *)
C1_Witness ==
    /\ last.op = "add_fact"
    /\ \E a, c \in DOMAIN last.pre :
           /\ a # c
           /\ Highest(a)
           /\ Qualifies(c)
           /\ facts[a].superseded_by = Added.id
           /\ last.pre[a].metadata.confidence = 98
           /\ Added.metadata.confidence = 100

(* C2: facts linked by superseded_by have the same scope and the same kind,
   and an add_fact leaves is_valid and the links of every fact of another
   scope or kind as they were, whatever the similarity. *)
C2_NoCrossPartition ==
    /\ \A a, b \in DOMAIN facts :
           facts[a].superseded_by = facts[b].id =>
               facts[a].scope = facts[b].scope /\ facts[a].kind = facts[b].kind
    /\ last.op = "add_fact" =>
           \A a \in DOMAIN last.pre :
               (last.pre[a].scope # Added.scope
                    \/ last.pre[a].kind # Added.kind) =>
                   /\ facts[a].is_valid = last.pre[a].is_valid
                   /\ facts[a].superseded_by = last.pre[a].superseded_by
                   /\ facts[a].supersedes = last.pre[a].supersedes
                   /\ Added.supersedes # facts[a].id

(* C2 witness: a valid fact of another kind and one of another scope, both
   with the added fact's very embedding, are still valid after add_fact. *)
C2_Witness ==
    /\ last.op = "add_fact"
    /\ last.query # NoEmbedding
    /\ \E a, c \in DOMAIN last.pre :
           /\ last.pre[a].embedding = last.query
           /\ last.pre[c].embedding = last.query
           /\ last.pre[a].kind # Added.kind
           /\ last.pre[a].scope = Added.scope
           /\ last.pre[c].scope # Added.scope
           /\ last.pre[c].kind = Added.kind
           /\ last.pre[a].is_valid /\ facts[a].is_valid
           /\ last.pre[c].is_valid /\ facts[c].is_valid

(* The fact the last add_fact superseded, as it was before the call *)
Superseded == last.pre[last.candidate]

(* C3 as claimed: after a superseding add_fact every valid fact of the store
   whose depends_on holds the superseded id needs review, and every fact
   whose depends_on does not hold it has needs_review as before. *)
C3_CascadeWholeStore ==
    (last.op = "add_fact" /\ last.candidate # 0) =>
        \A i \in DOMAIN facts :
            /\ (facts[i].is_valid /\ Superseded.id \in facts[i].depends_on)
                   => facts[i].needs_review
            /\ (i \in DOMAIN last.pre
                    /\ Superseded.id \notin facts[i].depends_on)
                   => facts[i].needs_review = last.pre[i].needs_review

(* C3 amended: the cascade reaches the facts that were in the store before
   the call, one hop; the fact being added is appended after the cascade
   and returns with needs_review false whatever its depends_on. *)
C3_CascadeOneHop ==
    (last.op = "add_fact" /\ last.candidate # 0) =>
        /\ \A i \in DOMAIN last.pre :
               /\ (facts[i].is_valid
                       /\ Superseded.id \in facts[i].depends_on)
                      => facts[i].needs_review
               /\ Superseded.id \notin facts[i].depends_on
                      => facts[i].needs_review = last.pre[i].needs_review
        /\ ~Added.needs_review

(* C3 witness: P is superseded; D depends on P and is flagged by the call;
   T depends on D only and stays unflagged. *)
C3_Witness ==
    /\ last.op = "add_fact"
    /\ last.candidate # 0
    /\ \E d, t \in DOMAIN last.pre :
           /\ Superseded.id \in last.pre[d].depends_on
           /\ ~last.pre[d].needs_review
           /\ facts[d].is_valid
           /\ facts[d].needs_review
           /\ last.pre[t].depends_on = {last.pre[d].id}
           /\ facts[t].is_valid
           /\ ~facts[t].needs_review

(* The facts reached from position i by following superseded_by for at most
   n steps *)
RECURSIVE Successors(_, _)
Successors(i, n) ==
    IF n = 0 THEN {}
    ELSE LET next == {j \in DOMAIN facts :
                         facts[i].superseded_by = facts[j].id}
         IN  next \cup UNION {Successors(j, n - 1) : j \in next}

(* C5: the supersession links form acyclic chains: an id is the
   superseded_by of at most one fact and the supersedes of at most one
   fact, and following superseded_by never returns to the start. *)
C5_AcyclicChains ==
    \A i \in DOMAIN facts :
        /\ Cardinality({j \in DOMAIN facts :
                           facts[j].superseded_by = facts[i].id}) <= 1
        /\ Cardinality({j \in DOMAIN facts :
                           facts[j].supersedes = facts[i].id}) <= 1
        /\ i \notin Successors(i, Len(facts))

(* C5 witness: a chain of three facts, the first superseded by the second
   and the second by the third. *)
C5_Witness ==
    \E a, b, c \in DOMAIN facts :
        /\ facts[a].superseded_by = facts[b].id
        /\ facts[b].superseded_by = facts[c].id
        /\ facts[b].supersedes = facts[a].id
        /\ facts[c].supersedes = facts[b].id
        /\ facts[c].is_valid

----------------------------------------------------------------------------
(* Properties of the lifecycle *)

(* C4: over add_fact, retrieve_relevant, build_context and constraint
   ingestion the lifecycle flags are monotonic: a fact stays in its place,
   once invalid it is never valid again, and once it needs review it needs
   review ever after. *)
C4_MonotonicFlags ==
    [][\A i \in DOMAIN facts :
           /\ i \in DOMAIN facts'
           /\ facts'[i].id = facts[i].id
           /\ ~facts[i].is_valid => ~facts'[i].is_valid
           /\ facts[i].needs_review => facts'[i].needs_review]_vars

(* C4 witness: a retrieval returned a fact that needed review, from a
   store that held an invalid fact. *)
C4_Witness ==
    /\ last.op = "retrieve_relevant"
    /\ \E i, j \in DOMAIN last.pre :
           /\ ~last.pre[i].is_valid
           /\ ~facts[i].is_valid
           /\ last.pre[j].needs_review
           /\ last.pre[j].id \in Range(last.result)
           /\ facts[j].needs_review

(* C6 as claimed: every fact has 0.0 <= metadata.confidence <= 1.0. *)
C6_ConfidenceClamped ==
    \A i \in DOMAIN facts :
        /\ 0 <= facts[i].metadata.confidence
        /\ facts[i].metadata.confidence <= 100

(* C7: add_fact adds exactly one fact, the valid fact it returns, and
   add_fact, retrieve_relevant and build_context keep every fact that was
   in the list. *)
C7_NeverDropsFacts ==
    /\ last.op = "add_fact" =>
           /\ Len(facts) = Len(last.pre) + 1
           /\ Added.id = last.fact
           /\ Added.id \notin Ids(last.pre)
           /\ Added.is_valid
    /\ last.op \in {"add_fact", "retrieve_relevant", "build_context"} =>
           \A i \in DOMAIN last.pre :
               i \in DOMAIN facts /\ facts[i].id = last.pre[i].id

(* C7 witness: an add_fact that superseded a fact made the list three
   facts long. *)
C7_Witness ==
    /\ last.op = "add_fact"
    /\ last.candidate # 0
    /\ ~facts[last.candidate].is_valid
    /\ Len(last.pre) = 2
    /\ Len(facts) = 3

(* C8 as claimed: after add_fact a fresh load() yields exactly the facts in
   memory, for every scope and every resolved identity. *)
C8_LoadYieldsMemory ==
    last.op = "add_fact" =>
        Range(Load(files, org_id, project_id)) = Range(facts)

----------------------------------------------------------------------------
(* Properties of retrieve_relevant *)

(* The pool of the last call: the valid facts not of kind CONSTRAINT *)
Pool ==
    {i \in DOMAIN last.pre :
        last.pre[i].is_valid /\ last.pre[i].kind # "constraint"}

(* The score of fact i at the last call *)
ScoreAt(i) == Score(last.pre[i], last.query, last.t)

(* The position of the j-th returned fact *)
Returned(j) == CHOOSE i \in DOMAIN last.pre : last.pre[i].id = last.result[j]

(* C9: retrieve_relevant(query, k), k >= 0, returns min(k, |pool|) distinct
   facts of the pool in non-increasing score order, none scoring less than
   a pool fact left out. *)
C9_TopKOfPool ==
    (last.op = "retrieve_relevant" /\ last.k >= 0) =>
        /\ Len(last.result) = Min(last.k, Cardinality(Pool))
        /\ \A j \in DOMAIN last.result :
               /\ last.result[j] \in Ids(last.pre)
               /\ Returned(j) \in Pool
        /\ \A j, l \in DOMAIN last.result :
               j < l => /\ last.result[j] # last.result[l]
                        /\ ScoreAt(Returned(j)) >= ScoreAt(Returned(l))
        /\ \A p \in Pool :
               last.pre[p].id \notin Range(last.result) =>
                   \A j \in DOMAIN last.result :
                       ScoreAt(p) <= ScoreAt(Returned(j))

(* C9 witness: k = 1 over a pool of two facts of different scores, beside
   an invalid fact and a constraint: the higher one came back. *)
C9_Witness ==
    /\ last.op = "retrieve_relevant"
    /\ last.k = 1
    /\ Len(last.result) = 1
    /\ \E p \in Pool : ScoreAt(p) < ScoreAt(Returned(1))
    /\ \E i \in DOMAIN last.pre : ~last.pre[i].is_valid

(* C10: retrieve_relevant adds 1 to access_count and sets last_accessed to
   the call time for the facts it returns and changes nothing else; no
   operation lowers an access_count. *)
C10_AccessMetadata ==
    /\ last.op = "retrieve_relevant" =>
           /\ Len(facts) = Len(last.pre)
           /\ \A i \in DOMAIN last.pre :
                  IF last.pre[i].id \in Range(last.result)
                  THEN facts[i] =
                           [last.pre[i] EXCEPT
                               !.metadata.access_count = @ + 1,
                               !.metadata.last_accessed = last.t]
                  ELSE facts[i] = last.pre[i]
    /\ \A i \in DOMAIN last.pre :
           /\ i \in DOMAIN facts
           /\ facts[i].metadata.access_count
                  >= last.pre[i].metadata.access_count

(* C10 witness: at time 1 a retrieval returned a fact last accessed at
   time 0 and left another fact of the pool out. *)
C10_Witness ==
    /\ last.op = "retrieve_relevant"
    /\ last.t = 1
    /\ \E i, p \in Pool :
           /\ last.pre[i].id \in Range(last.result)
           /\ last.pre[i].metadata.last_accessed = 0
           /\ facts[i].metadata.last_accessed = 1
           /\ facts[i].metadata.access_count
                  = last.pre[i].metadata.access_count + 1
           /\ last.pre[p].id \notin Range(last.result)
           /\ facts[p] = last.pre[p]

----------------------------------------------------------------------------
(* Properties of context assembly *)

(* The layers of the last ContextResult that hold the fact at position i *)
LayersOf(i) ==
    {name \in DOMAIN last.context : i \in Range(last.context[name])}

(* The valid facts of the last call that no earlier rule takes *)
Candidates ==
    {i \in DOMAIN last.pre :
        /\ last.pre[i].is_valid
        /\ last.pre[i].kind \notin {"constraint", "known_unknown"}
        /\ last.pre[i].scope # "session"}

(* C11: assemble places each fact in at most one layer, by the first rule
   that matches: valid CONSTRAINT, valid KNOWN_UNKNOWN, valid SESSION scope,
   any other valid fact (a candidate for valid_facts, in it when k covers
   the candidates), invalid with superseded_by set; an invalid fact without
   superseded_by is in no layer and no invalid fact is in a layer of valid
   facts. *)
C11_FirstMatchingLayer ==
    last.op = "build_context" =>
        \A i \in DOMAIN last.pre :
            LET f == last.pre[i]
            IN  /\ Cardinality(LayersOf(i)) <= 1
                /\ \A name \in DOMAIN last.context :
                       Cardinality({j \in DOMAIN last.context[name] :
                                       last.context[name][j] = i}) <= 1
                /\ (f.is_valid /\ f.kind = "constraint")
                       => LayersOf(i) = {"constraints"}
                /\ (f.is_valid /\ f.kind = "known_unknown")
                       => LayersOf(i) = {"known_unknowns"}
                /\ (f.is_valid /\ f.scope = "session"
                        /\ f.kind \notin {"constraint", "known_unknown"})
                       => LayersOf(i) = {"working_set"}
                /\ i \in Candidates
                       => /\ LayersOf(i) \subseteq {"valid_facts"}
                          /\ Cardinality(Candidates) <= last.k
                                 => LayersOf(i) = {"valid_facts"}
                /\ (~f.is_valid /\ f.superseded_by # NoId)
                       => LayersOf(i) \subseteq {"invalidated_facts"}
                /\ (~f.is_valid /\ f.superseded_by = NoId)
                       => LayersOf(i) = {}

(* C11 witness: a valid KNOWN_UNKNOWN of SESSION scope went to
   known_unknowns, beside an invalid fact without a successor that went
   nowhere. *)
C11_Witness ==
    /\ last.op = "build_context"
    /\ \E i, j \in DOMAIN last.pre :
           /\ last.pre[i].is_valid
           /\ last.pre[i].kind = "known_unknown"
           /\ last.pre[i].scope = "session"
           /\ LayersOf(i) = {"known_unknowns"}
           /\ ~last.pre[j].is_valid
           /\ last.pre[j].superseded_by = NoId
           /\ LayersOf(j) = {}

(* The precedence of a scope: GLOBAL, ORG, PROJECT, SESSION *)
ScopeRank(scope) ==
    CHOOSE r \in 1..4 : <<"global", "org", "project", "session">>[r] = scope

(* C12: the constraints layer holds the valid constraints of the input in
   scope precedence GLOBAL, ORG, PROJECT, SESSION, those of equal scope in
   their input order, whatever the input order. *)
C12_ConstraintsByScope ==
    last.op = "build_context" =>
        LET layer == last.context.constraints
        IN  /\ Range(layer) =
                   {i \in DOMAIN last.pre :
                       last.pre[i].is_valid /\ last.pre[i].kind = "constraint"}
            /\ \A j, l \in DOMAIN layer :
                   j < l =>
                       \/ ScopeRank(last.pre[layer[j]].scope)
                              < ScopeRank(last.pre[layer[l]].scope)
                       \/ /\ last.pre[layer[j]].scope = last.pre[layer[l]].scope
                          /\ layer[j] < layer[l]

(* C12 witness: four constraints given as SESSION, PROJECT, GLOBAL, PROJECT
   came back as GLOBAL, PROJECT, PROJECT, SESSION, the two of PROJECT scope
   in their input order. *)
C12_Witness ==
    /\ last.op = "build_context"
    /\ Len(last.pre) = 4
    /\ [i \in 1..4 |-> last.pre[i].scope]
           = <<"session", "project", "global", "project">>
    /\ last.context.constraints = <<3, 2, 4, 1>>

(* The invalid facts of the last call that have superseded_by set *)
Invalidated ==
    {i \in DOMAIN last.pre :
        ~last.pre[i].is_valid /\ last.pre[i].superseded_by # NoId}

LastAccessed(i) == last.pre[i].metadata.last_accessed

(* C13: of n invalid facts with superseded_by set, assemble returns
   min(3, n) as invalidated_facts, by last_accessed descending, and none
   left out was accessed later than one returned. *)
C13_InvalidatedCap ==
    last.op = "build_context" =>
        LET layer == last.context.invalidated_facts
        IN  /\ Len(layer) = Min(3, Cardinality(Invalidated))
            /\ Range(layer) \subseteq Invalidated
            /\ \A j, l \in DOMAIN layer :
                   j < l => /\ layer[j] # layer[l]
                            /\ LastAccessed(layer[j]) >= LastAccessed(layer[l])
            /\ \A i \in Invalidated \ Range(layer) :
                   \A j \in DOMAIN layer :
                       LastAccessed(i) <= LastAccessed(layer[j])

(* C13 witness: of four invalidated facts the first of the input, the one
   accessed longest ago, was left out. *)
C13_Witness ==
    /\ last.op = "build_context"
    /\ Cardinality(Invalidated) = 4
    /\ Len(last.context.invalidated_facts) = 3
    /\ 1 \in Invalidated \ Range(last.context.invalidated_facts)
    /\ \E j \in DOMAIN last.context.invalidated_facts :
           LastAccessed(1) < LastAccessed(last.context.invalidated_facts[j])

----------------------------------------------------------------------------
(* Properties of constraint ingestion *)

(* The content of constraint file i differs from the content its stored
   checksum was taken from: it changed since the last completed ingest, or
   was never ingested. *)
ChangedFile(i) == docs[i].exists /\ FileChecksum(docs[i]) # checksums[i]

(* This step is a call of ingest that returned: by _ingest_constraints on
   the store or by the constructor of a new one *)
IngestStep == last'.op \in {"ingest", "init"} /\ docs' = docs

(* C14: when no constraint file changed since the last completed ingest, a
   further ingest, on the same store or in the constructor of a new one,
   creates no fact, leaves every fact it was handed as it was and leaves
   the stored checksums and the partition files as they were. *)
C14_IngestIdempotent ==
    [][(IngestStep /\ \A i \in DOMAIN docs : ~ChangedFile(i)) =>
           /\ last'.result = <<>>
           /\ facts' = last'.pre
           /\ checksums' = checksums
           /\ files' = files
           /\ next_id' = next_id]_vars

(* C14 witness: a newly constructed store loaded two valid ingested
   constraints, one of each file, and its ingest changed nothing. *)
C14_Witness ==
    /\ last.op = "init"
    /\ last.result = <<>>
    /\ facts = last.pre
    /\ \A i \in DOMAIN docs : ~ChangedFile(i)
    /\ \A i \in {1, 2} :
           \E n \in DOMAIN facts :
               /\ facts[n].kind = "constraint"
               /\ facts[n].is_valid
               /\ facts[n].metadata.source_file = CONSTRAINT_FILES[i].path
               /\ facts[n].metadata.confidence = 100

(* The sections ingest makes no fact of *)
Blank == {"", " "}

(* The positions of fs holding a valid CONSTRAINT fact sourced from path *)
ValidOfPath(fs, path) ==
    {n \in DOMAIN fs :
        /\ fs[n].kind = "constraint"
        /\ fs[n].is_valid
        /\ fs[n].metadata.source_file = path}

(* C15: after ingest processed a changed file, the valid CONSTRAINT facts
   of its path are exactly the facts this ingest created, one for each
   non-empty section, and every CONSTRAINT fact of the path that was valid
   before is invalid with superseded_by unset. *)
C15_OneGenerationValid ==
    [][IngestStep =>
           \A i \in DOMAIN docs :
               ChangedFile(i) =>
                   LET path == CONSTRAINT_FILES[i].path
                       valid == {facts'[n].id : n \in ValidOfPath(facts', path)}
                   IN  /\ valid \subseteq Range(last'.result)
                       /\ valid \cap Ids(last'.pre) = {}
                       /\ Cardinality(valid) =
                              Cardinality({j \in DOMAIN docs[i].sections :
                                              docs[i].sections[j] \notin Blank})
                       /\ \A n \in ValidOfPath(last'.pre, path) :
                              /\ facts'[n].id = last'.pre[n].id
                              /\ ~facts'[n].is_valid
                              /\ facts'[n].superseded_by = NoId]_vars

(* C15 witness: an ingest replaced a valid constraint of the project file
   by a new one and left the constraint of the global file valid. *)
C15_Witness ==
    /\ last.op \in {"ingest", "init"}
    /\ \E n, m \in DOMAIN last.pre :
           /\ n \in ValidOfPath(last.pre, CONSTRAINT_FILES[2].path)
           /\ ~facts[n].is_valid
           /\ m \in ValidOfPath(last.pre, CONSTRAINT_FILES[1].path)
           /\ facts[m].is_valid
    /\ \E n \in ValidOfPath(facts, CONSTRAINT_FILES[2].path) :
           facts[n].id \in Range(last.result)

(* C16 as claimed: whenever a fact is invalid, every valid fact whose
   depends_on holds its id needs review. *)
C16_DependentsNeedReview ==
    \A p, d \in DOMAIN facts :
        (~facts[p].is_valid /\ facts[d].is_valid
             /\ facts[p].id \in facts[d].depends_on)
            => facts[d].needs_review

----------------------------------------------------------------------------
(* Properties of persistence *)

(* C17 as claimed: after every call that changed a fact, add_fact or a
   retrieve_relevant that returned facts, the partition files hold the
   in-memory set: a load of them yields the facts as they are in memory. *)
C17_MutationsPersisted ==
    (last.op = "add_fact"
         \/ (last.op = "retrieve_relevant" /\ last.result # <<>>))
        => Range(Load(files, org_id, project_id)) = Range(facts)

(* C18 as claimed: add_fact does not return normally while a partition
   file was left unwritten: when it returns, every partition file of the
   store holds the facts of its scopes. *)
C18_WriteFailureSurfaced ==
    (last.op = "add_fact" /\ ~last.raised) =>
        \A p \in Partitions :
            HasPath(p, org_id, project_id) =>
                files[p] =
                    [exists |-> TRUE,
                     facts |-> ToDicts(SelectSeq(facts,
                                  LAMBDA f : f.scope \in PartitionScopes(p))),
                     fault |-> "none"]

(* C19 as claimed: the load of a constructor never raises because of one
   bad partition file, and the facts of the other files are loaded. *)
C19_LoadNeverRaises ==
    last.op = "init" =>
        /\ ~last.raised
        /\ \A p \in Partitions :
               (files[p].exists /\ files[p].fault = "none") =>
                   Range(FromDicts(files[p].facts)) \subseteq Range(facts)

(* C20 as claimed: when a constraint file cannot be read or decoded, ingest
   does not raise, the file's valid constraints stay valid and its stored
   checksum stays, and every other changed file is processed. *)
C20_FailedFileSkipped ==
    [][IngestStep =>
           /\ ~last'.raised
           /\ \A i \in DOMAIN docs :
                  (docs[i].exists /\ docs[i].fault # "none") =>
                      /\ checksums'[i] = checksums[i]
                      /\ \A n \in ValidOfPath(last'.pre,
                                              CONSTRAINT_FILES[i].path) :
                             facts'[n].is_valid
           /\ \A i \in DOMAIN docs :
                  (docs[i].fault = "none" /\ ChangedFile(i)) =>
                      checksums'[i] = FileChecksum(docs[i])]_vars

----------------------------------------------------------------------------
(* Further properties of add_fact *)

(* C21 as claimed: after a superseding add_fact called with confidence c
   the returned fact has confidence min(1.0, c + 0.05). *)
C21_SuppliedConfidenceRaised ==
    (last.op = "add_fact" /\ last.candidate # 0) =>
        Added.metadata.confidence = Min(100, last.confidence + 5)

(* C21 amended: after a superseding add_fact the returned fact has the
   superseded fact's confidence raised by 0.05 and capped at 1.0, whatever
   confidence the caller supplied; without a candidate it has the supplied
   confidence. *)
C21_CarriedConfidenceRaised ==
    last.op = "add_fact" =>
        IF last.candidate # 0
        THEN Added.metadata.confidence =
                 Min(100, Superseded.metadata.confidence + 5)
        ELSE Added.metadata.confidence = last.confidence

(* C21 witness: add_fact called with confidence 0.98 superseded a fact of
   confidence 0.5 and returned a fact of confidence 0.55. *)
C21_Witness ==
    /\ last.op = "add_fact"
    /\ last.candidate # 0
    /\ last.confidence = 98
    /\ Superseded.metadata.confidence = 50
    /\ Added.metadata.confidence = 55

----------------------------------------------------------------------------
(* Rendering: lists of facts whose bodies are as long as each slice, one
   character longer and one character shorter, assembled and rendered. *)

(* A text of n characters *)
Text(n) == [i \in 1..n |-> "x"]

MaxRendered == 2

BodyLengths == {149, 150, 151, 199, 200, 201}

RenderMenu ==
    {[GivenFact(kind, scope, v.is_valid, v.superseded_by, 0)
         EXCEPT !.body = Text(n)] :
        kind \in {"known_unknown", "pattern"},
        scope \in {"project", "session"},
        v \in {[is_valid |-> TRUE, superseded_by |-> NoId],
               [is_valid |-> FALSE, superseded_by |-> 9]},
        n \in BodyLengths}

InitRender ==
    \E n \in 0..MaxRendered : \E f \in [1..n -> RenderMenu] : InitGiven(n, f)

NextRender ==
    \/ BuildContext(NoEmbedding, MaxRendered)
    \/ FormatContext

SpecRender == InitRender /\ [][NextRender]_vars

(* The fact of the store with the given id *)
FactOf(id) == facts[CHOOSE i \in DOMAIN facts : facts[i].id = id]

(* The lines of the four sliced sections that render a fact *)
BodyLines ==
    {j \in DOMAIN last.rendered :
        /\ last.rendered[j].fact # NoId
        /\ last.rendered[j].section # "constraints"}

(* C22 as claimed: every rendered line of valid_facts holds at most 200
   characters of the body, and every rendered line of invalidated_facts,
   known_unknowns and working_set at most 150. *)
C22_BodyTruncatedAsStated ==
    last.op = "format_context" =>
        \A j \in BodyLines :
            Len(last.rendered[j].body) <=
                (IF last.rendered[j].section = "valid_facts" THEN 200 ELSE 150)

(* C22 amended: every rendered line of valid_facts and of working_set holds
   the first 200 characters of its fact's body (the whole body when it is
   shorter), and every rendered line of invalidated_facts and of
   known_unknowns the first 150. *)
C22_BodyTruncated ==
    last.op = "format_context" =>
        \A j \in BodyLines :
            LET line == last.rendered[j]
                limit == IF line.section \in {"valid_facts", "working_set"}
                         THEN 200 ELSE 150
                text == FactOf(line.fact).body
            IN  /\ Len(line.body) = Min(Len(text), limit)
                /\ \A c \in 1..Len(line.body) : line.body[c] = text[c]

(* C22 witness: a working-set fact with a body of 201 characters was
   rendered with 200 of them, next to a known unknown rendered with 150 of
   its 151. *)
C22_Witness ==
    /\ last.op = "format_context"
    /\ \E j \in BodyLines :
           /\ last.rendered[j].section = "working_set"
           /\ Len(FactOf(last.rendered[j].fact).body) = 201
           /\ Len(last.rendered[j].body) = 200
    /\ \E j \in BodyLines :
           /\ last.rendered[j].section = "known_unknowns"
           /\ Len(FactOf(last.rendered[j].fact).body) = 151
           /\ Len(last.rendered[j].body) = 150

----------------------------------------------------------------------------
(* No embedding provider: a store that is empty or holds a fact an earlier
   process embedded and saved, used while every call of the provider yields
   nothing (fastembed absent, the model failing to initialise, or embed
   raising each time). *)

StoredFact ==
    NewFact(1, "b", "pattern", "project", "testorg", "testproj1234", "", 50,
            EmbA, {}, 0)

InitNoProvider ==
    /\ org_id = "testorg"
    /\ project_id = "testproj1234"
    /\ facts \in {<<>>, <<StoredFact>>}
    /\ files = Save(facts, [p \in Partitions |-> NoFile], org_id, project_id)
    /\ docs = [i \in DOMAIN CONSTRAINT_FILES |-> NoDoc]
    /\ checksums = [i \in DOMAIN CONSTRAINT_FILES |-> NoChecksum]
    /\ now = 0
    /\ next_id = Len(facts) + 1
    /\ last = Call("init", <<>>, 0, NoId, NoEmbedding, 0, <<>>, EmptyContext)
    /\ embedding_cache = <<>>
    /\ other = NoInstance
    /\ updater = NoUpdater

NextNoProvider ==
    \/ \E text \in {NoEmbedding, EmbA, EmbN}, confidence \in {50, 98} :
           /\ next_id <= MaxFacts
           /\ AddFactOf("b", "pattern", "project", confidence, "", text,
                        NoEmbedding, {}, {})
    \/ \E text \in {NoEmbedding, EmbA}, k \in 1..MaxK :
           /\ AccessTotal(facts) < MaxAccess
           /\ RetrieveRelevantOf(text, NoEmbedding, k)
    \/ \E text \in {NoEmbedding, EmbA} :
           BuildContextOf(text, NoEmbedding, MaxK)
    \/ Tick

SpecNoProvider == InitNoProvider /\ [][NextNoProvider]_vars

(* C23: with no embedding provider no call raises, every fact add_fact
   creates has no embedding and invalidates nothing, nothing enters the
   cache, and every score of retrieve_relevant and build_context is
   computed with similarity 0.5. *)
C23_DegradesWithoutProvider ==
    /\ ~last.raised
    /\ embedding_cache = <<>>
    /\ \A i \in DOMAIN facts :
           \/ facts[i].embedding = NoEmbedding
           \/ [facts[i] EXCEPT !.metadata = StoredFact.metadata] = StoredFact
    /\ last.op = "add_fact" =>
           /\ last.candidate = 0
           /\ Added.embedding = NoEmbedding
           /\ Added.supersedes = NoId
           /\ \A i \in DOMAIN last.pre : facts[i] = last.pre[i]
    /\ last.op \in {"retrieve_relevant", "build_context"} =>
           /\ last.query = NoEmbedding
           /\ \A i \in DOMAIN last.pre :
                  ScoreAt(i) =
                      5000 * last.pre[i].metadata.confidence
                           * (Pow2(MaxTime)
                              + Pow2(MaxTime
                                     - (last.t
                                        - last.pre[i].metadata.last_accessed)))

(* C23 witness: the text of a stored, embedded, valid fact was added again
   without a provider: the new fact has no embedding and the stored fact is
   still valid. *)
C23_Witness ==
    /\ last.op = "add_fact"
    /\ last.text = EmbA
    /\ last.pre # <<>>
    /\ last.pre[1] = StoredFact
    /\ facts[1].is_valid
    /\ Added.embedding = NoEmbedding
    /\ Added.kind = StoredFact.kind
    /\ Added.scope = StoredFact.scope

----------------------------------------------------------------------------
(* Several candidates: EmbA and EmbB are not within the threshold of each
   other, EmbN is within it of both at the same similarity, and EmbM is
   within it of both, nearer to EmbA. *)

InitSeveral == InitWith({"testorg"}, {"testproj1234"})

NextSeveral ==
    \E scope \in {"project", "global"},
       embedding \in {EmbA, EmbB, EmbN, EmbM} :
        /\ next_id <= MaxFacts
        /\ AddFact("b", "pattern", scope, 50, "", embedding, {})

SpecSeveral == InitSeveral /\ [][NextSeveral]_vars

(* The facts of the prior list that qualify as candidates *)
Qualifying == {a \in DOMAIN last.pre : Qualifies(a)}

(* C24: when two or more facts qualify, add_fact invalidates the one of
   highest similarity (the first in store order among equals), links it
   with the added fact, and leaves is_valid, superseded_by and supersedes
   of every other prior fact as they were. *)
C24_ExactlyOneInvalidated ==
    (last.op = "add_fact" /\ Cardinality(Qualifying) >= 2) =>
        \E a \in Qualifying :
            /\ Highest(a)
            /\ last.candidate = a
            /\ ~facts[a].is_valid
            /\ \A c \in DOMAIN last.pre \ {a} :
                   /\ facts[c].is_valid = last.pre[c].is_valid
                   /\ facts[c].superseded_by = last.pre[c].superseded_by
                   /\ facts[c].supersedes = last.pre[c].supersedes
            /\ Cardinality({c \in DOMAIN last.pre :
                               last.pre[c].is_valid /\ ~facts[c].is_valid}) = 1

(* C24 witness: the second of two qualifying facts had the higher
   similarity and was invalidated, the first stayed valid *)
C24_Witness ==
    /\ last.op = "add_fact"
    /\ Qualifying = {1, 2}
    /\ SimTo(2) > SimTo(1)
    /\ ~facts[2].is_valid
    /\ facts[1].is_valid

(* C24 witness of a tie: two facts qualified with the same similarity and
   the first in store order was invalidated *)
C24_WitnessTie ==
    /\ last.op = "add_fact"
    /\ Qualifying = {1, 2}
    /\ SimTo(2) = SimTo(1)
    /\ ~facts[1].is_valid
    /\ facts[2].is_valid

----------------------------------------------------------------------------
(* Two stores: two FactStore objects constructed on the same home
   directory, each with its own in-memory list, used in turn. *)

InitTwoStores == InitWith({"testorg"}, {"testproj1234"})

NextTwoStores ==
    \/ \E scope \in {"project", "global"} :
           /\ next_id <= MaxFacts
           /\ AddFact("b", "pattern", scope, 50, "", NoEmbedding, {})
    \/ SwitchInstance
    \/ Construct

SpecTwoStores == InitTwoStores /\ [][NextTwoStores]_vars

(* The ids of the records of partition file p *)
FileIds(p) == {files[p].facts[j].id : j \in DOMAIN files[p].facts}

(* C25: an add_fact reports no error and leaves in every partition file
   the calling store's own facts of that partition and nothing else, so
   that a fact only the other store holds is in no file afterwards. *)
C25_LastWriterWins ==
    last.op = "add_fact" =>
        /\ ~last.raised
        /\ \A p \in Partitions :
               FileIds(p) =
                   {facts[i].id : i \in {j \in DOMAIN facts :
                       facts[j].scope \in PartitionScopes(p)}}
        /\ \A i \in DOMAIN other.facts :
               other.facts[i].id \notin Ids(facts) =>
                   \A p \in Partitions : other.facts[i].id \notin FileIds(p)

(* C25 witness: the other store added and saved f1; this store, loaded
   before that, then added f2 of the same scope: the project file holds f2
   and not f1. *)
C25_Witness ==
    /\ last.op = "add_fact"
    /\ ~last.raised
    /\ last.pre = <<>>
    /\ Len(other.facts) = 1
    /\ other.facts[1].scope = "project"
    /\ Added.scope = "project"
    /\ other.facts[1].id < Added.id
    /\ FileIds("project") = {Added.id}

----------------------------------------------------------------------------
(* The embedding cache: texts with four different vectors and the blank
   text, embedded for queries and for a fact added again and again, by a
   provider that yields the vector or fails, call by call. *)

InitCache == InitWith({"testorg"}, {"testproj1234"})

Texts == {NoEmbedding, EmbA, EmbB, EmbN, EmbM}

NextCache ==
    \/ \E provided \in {EmbA, NoEmbedding} :
           /\ next_id <= MaxFacts
           /\ AddFactOf("b", "pattern", "project", 50, "", EmbA, provided,
                        {}, {})
    \/ \E text \in Texts : \E provided \in {text, NoEmbedding} :
           \/ RetrieveRelevantOf(text, provided, 0)
           \/ BuildContextOf(text, provided, 1)

SpecCache == InitCache /\ [][NextCache]_vars

(* A step that is a call of one of the callers of _embed_text *)
EmbedStep == last'.op \in {"add_fact", "retrieve_relevant", "build_context"}

(* The keys of a cache *)
CacheKeys(cache) == {cache[j].key : j \in DOMAIN cache}

(* Cache c2 holds the entries of cache c1 other than that of key, in the
   order of c1, before whatever else it holds *)
KeepsOrder(c1, c2, key) ==
    \A i, j \in DOMAIN c1 :
        (i < j /\ c1[i].key # key /\ c1[j].key # key) =>
            /\ CachePosition(c2, c1[i].key) # 0
            /\ CachePosition(c2, c1[j].key) # 0
            /\ CachePosition(c2, c1[i].key) < CachePosition(c2, c1[j].key)
            /\ c2[CachePosition(c2, c1[i].key)] = c1[i]
            /\ c2[CachePosition(c2, c1[j].key)] = c1[j]

(* C26: after a call of _embed_text the cache holds at most
   EMBEDDING_CACHE_MAX_SIZE entries, none of them without an embedding; a
   hit moves the entry to the most recently used end and changes nothing
   else; a miss with an embedding appends the entry and, when the cache was
   full, evicts the least recently used entry and no other; a miss without
   an embedding, or a blank text, leaves the cache as it was. *)
C26_CacheIsBoundedLru ==
    [][EmbedStep =>
        LET text == last'.text
            provided == last'.provided
            old == embedding_cache
            new == embedding_cache'
            hit == text # NoEmbedding /\ text \in CacheKeys(old)
            inserted == text # NoEmbedding /\ ~hit /\ provided # NoEmbedding
        IN  /\ Len(new) <= EMBEDDING_CACHE_MAX_SIZE
            /\ \A j \in DOMAIN new : new[j].embedding # NoEmbedding
            /\ \A i, j \in DOMAIN new : i # j => new[i].key # new[j].key
            /\ hit =>
                   /\ CacheKeys(new) = CacheKeys(old)
                   /\ new[Len(new)] = old[CachePosition(old, text)]
                   /\ last'.query = new[Len(new)].embedding
                   /\ KeepsOrder(old, new, text)
            /\ inserted =>
                   /\ new[Len(new)] = [key |-> text, embedding |-> provided]
                   /\ last'.query = provided
                   /\ IF Len(old) = EMBEDDING_CACHE_MAX_SIZE
                      THEN /\ CacheKeys(new) =
                                  (CacheKeys(old) \ {old[1].key}) \cup {text}
                           /\ KeepsOrder(Tail(old), new, text)
                      ELSE /\ CacheKeys(new) = CacheKeys(old) \cup {text}
                           /\ KeepsOrder(old, new, text)
            /\ (~hit /\ ~inserted) =>
                   /\ new = old
                   /\ last'.query = NoEmbedding
    ]_vars

(* C26 witness: add_fact embedded a text that was not in the full cache:
   the cache is full again, the text is its most recently used entry and
   the entry that was least recently used is gone. *)
C26_Witness ==
    /\ last.op = "add_fact"
    /\ last.text # NoEmbedding
    /\ last.text \notin CacheKeys(last.cache)
    /\ Len(last.cache) = EMBEDDING_CACHE_MAX_SIZE
    /\ Len(embedding_cache) = EMBEDDING_CACHE_MAX_SIZE
    /\ embedding_cache[Len(embedding_cache)].key = last.text
    /\ last.cache[1].key \notin CacheKeys(embedding_cache)
    /\ last.cache[2].key \in CacheKeys(embedding_cache)

----------------------------------------------------------------------------
(* Auto-install: the package installed at some version, or not found,
   perform_auto_install called for each target with pip succeeding,
   failing, timing out or not starting. *)

InitUpdate ==
    /\ org_id = "testorg"
    /\ project_id = "testproj1234"
    /\ facts = <<>>
    /\ files = [p \in Partitions |-> NoFile]
    /\ docs = [i \in DOMAIN CONSTRAINT_FILES |-> NoDoc]
    /\ checksums = [i \in DOMAIN CONSTRAINT_FILES |-> NoChecksum]
    /\ now = 0
    /\ next_id = 1
    /\ last = Call("init", <<>>, 0, NoId, NoEmbedding, 0, <<>>, EmptyContext)
    /\ embedding_cache = <<>>
    /\ other = NoInstance
    /\ \E installed \in {UnknownVersion} \cup 1..MaxVersion,
          cache \in BOOLEAN :
           updater = [NoUpdater EXCEPT !.installed = installed,
                                       !.cache = cache]

NextUpdate ==
    \/ \E new_version \in 1..MaxVersion, log_writable \in BOOLEAN,
          pip \in {"ok", "failed", "timeout", "error"},
          latest \in 1..MaxVersion :
           PerformAutoInstall(new_version, log_writable, pip, latest)
    \/ WriteCache

SpecUpdate == InitUpdate /\ [][NextUpdate]_vars

(* C27: a perform_auto_install whose target was the installed version did
   not invoke pip and returned True. *)
C27_SkipsWhenOnTarget ==
    (updater.call.target # 0
        /\ updater.call.installed = updater.call.target) =>
        /\ ~updater.call.invoked
        /\ updater.call.returned

----------------------------------------------------------------------------
(* Context building: embedded patterns of two scopes, each superseding the
   one before it in its scope, and constraints, handed to build_context for
   queries with and without an embedding, at later and later times. *)

InitBuild == InitWith({"testorg"}, {"testproj1234"})

NextBuild ==
    \/ \E kind \in {"pattern", "constraint"}, scope \in {"project", "session"} :
           /\ next_id <= MaxFacts
           /\ kind = "constraint" => scope = "project"
           /\ AddFact("b", kind, scope, 50, "",
                      IF kind = "pattern" THEN EmbA ELSE NoEmbedding, {})
    \/ \E text \in {NoEmbedding, EmbA} : \E provided \in {text, NoEmbedding} :
           BuildContextOf(text, provided, MaxK)
    \/ Tick

SpecBuild == InitBuild /\ [][NextBuild]_vars

----------------------------------------------------------------------------
(* Properties of build_context *)

(* A step that is a call of build_context *)
BuildStep == last'.op = "build_context" /\ last' # last

(* C28: a call of build_context leaves the list of facts, every field of
   every fact and every partition file as they were. *)
C28_BuildContextReadOnly ==
    [][BuildStep => /\ facts' = facts
                    /\ files' = files
                    /\ last'.pre = facts]_vars

(* C28 witness: build_context returned a constraint, a valid fact and a
   superseded fact at a time later than their last access, and no fact of
   the store has been accessed. *)
C28_Witness ==
    /\ last.op = "build_context"
    /\ last.context.valid_facts # <<>>
    /\ last.context.constraints # <<>>
    /\ last.context.invalidated_facts # <<>>
    /\ \A i \in DOMAIN facts :
           /\ facts[i].metadata.access_count = 0
           /\ facts[i].metadata.last_accessed < now
    /\ facts = last.pre

----------------------------------------------------------------------------
(* Links: facts of two scopes that supersede one another, retrieved, saved
   and loaded again, in a checkout with and without a known organisation
   and project. *)

InitLinks == InitWith({"unknown", "testorg"}, {"", "testproj1234"})

NextLinks ==
    \/ \E scope \in {"org", "project"}, embedding \in {EmbA, EmbN} :
           /\ next_id <= MaxFacts
           /\ AddFact("b", "pattern", scope, 50, "", embedding, {})
    \/ /\ AccessTotal(facts) < MaxAccess
       /\ RetrieveRelevant(EmbA, 1)
    \/ SaveStore
    \/ Construct

SpecLinks == InitLinks /\ [][NextLinks]_vars

(* C29: every fact with superseded_by set is invalid and the store holds
   exactly one fact with that id, whose supersedes is the fact's id; every
   fact with supersedes set has its predecessor in the store, whose
   superseded_by is the fact's id. *)
C29_LinksConsistent ==
    /\ \A a \in DOMAIN facts :
           facts[a].superseded_by # NoId =>
               /\ ~facts[a].is_valid
               /\ Cardinality({b \in DOMAIN facts :
                      facts[b].id = facts[a].superseded_by}) = 1
               /\ \A b \in DOMAIN facts :
                      facts[b].id = facts[a].superseded_by =>
                          facts[b].supersedes = facts[a].id
    /\ \A b \in DOMAIN facts :
           facts[b].supersedes # NoId =>
               \E a \in DOMAIN facts :
                   /\ facts[a].id = facts[b].supersedes
                   /\ facts[a].superseded_by = facts[b].id

(* C29 witness: a store constructed on the saved files holds a chain of
   three facts, linked both ways, the valid one of which had been
   retrieved before the files were written. *)
C29_Witness ==
    /\ last.op = "init"
    /\ \E a, b, c \in DOMAIN facts :
           /\ facts[a].superseded_by = facts[b].id
           /\ facts[b].supersedes = facts[a].id
           /\ facts[b].superseded_by = facts[c].id
           /\ facts[c].supersedes = facts[b].id
           /\ facts[c].is_valid
           /\ facts[b].metadata.access_count > 0

----------------------------------------------------------------------------
(* Lost partitions: the global and the project CLAUDE.md written, stores
   constructed on them in a checkout with and without a project partition,
   and partition files deleted or overwritten with something that is not
   JSON between the constructions. *)

InitLostPartition == InitWith({"testorg"}, {"", "testproj1234"})

NextLostPartition ==
    \/ \E i \in {1, 2}, sections \in {<<"use tabs">>, <<" use tabs ", " ">>} :
           EditDoc(i, sections)
    \/ \E p \in {"global", "project"} : DeleteFile(p)
    \/ \E p \in {"global", "project"} :
           /\ files[p].exists
           /\ CorruptFile(p, "not_json")
    \/ /\ next_id + Len(Ingest(Load(files, org_id, project_id), checksums,
                               docs, org_id, project_id, next_id,
                               now).new_facts) <= MaxFacts + 1
       /\ Construct

SpecLostPartition == InitLostPartition /\ [][NextLostPartition]_vars

(* C30: after a construction, every existing constraint file whose checksum
   is the recorded one has, for each of its non-empty sections, a valid
   CONSTRAINT fact of its path in memory. *)
C30_RecordedConstraintsHeld ==
    (last.op = "init" /\ ~last.raised) =>
        \A i \in DOMAIN docs :
            (docs[i].exists /\ checksums[i] = FileChecksum(docs[i])) =>
                \A j \in DOMAIN docs[i].sections :
                    docs[i].sections[j] \notin Blank =>
                        \E n \in ValidOfPath(facts, CONSTRAINT_FILES[i].path) :
                            facts[n].body = Strip(docs[i].sections[j])

====
